---- MODULE Spec2Model ----
(***************************************************************************)
(* The validator of dada-validate (validator.rs): a walk over the syntax   *)
(* tree of one function that fills the validated tables and their origins  *)
(* side-table, and emits diagnostics.                                      *)
(*                                                                         *)
(* A syntax::Expr is the path of its node from the root of the tree (a     *)
(* tuple of child indexes), so that two equal subtrees are two different   *)
(* expressions, as two arena ids are.  A validated id is the 1-based index *)
(* of its slot in the table of its kind.                                   *)
(***************************************************************************)
EXTENDS Integers, Sequences, FiniteSets, TLC

VARIABLES
    syntax_tree,    \* the function body (syntax::TreeData), an input
    code,           \* Code: effect, return_type and parameters, an input
    tables,         \* validated::Tables
    origins,        \* validated::Origins
    loop_stack,     \* Validator.loop_stack
    scope,          \* Validator.scope
    effect,         \* Validator.effect
    effect_span,    \* Validator.effect_span
    synthesized,    \* Validator.synthesized
    diagnostics,    \* what was emitted to the db
    panic,          \* the assertion that aborted the validation, if any
    root_expr,      \* the validated expression the entry point returned (0: none yet)
    entry_mode,     \* the ExprMode the body was validated in
    pc,             \* "start", "done" or "panicked"
    bir             \* a bir::BasicBlockData and what was last asked of it

vars == <<syntax_tree, code, tables, origins, loop_stack, scope, effect,
          effect_span, synthesized, diagnostics, panic, root_expr, entry_mode, pc,
          bir>>

(***************************************************************************)
(* Syntax tree: a node is [k, kids, a]; a is a tuple of strings.           *)
(***************************************************************************)
N(k, kids, a) == [k |-> k, kids |-> kids, a |-> a]

RECURSIVE subtree(_, _)
subtree(tree, path) ==
    IF path = <<>> THEN tree ELSE subtree(tree.kids[Head(path)], Tail(path))

\* expr.data(self.syntax_tables())
data(expr) == subtree(syntax_tree, expr)

kid(expr, i) == Append(expr, i)

\* Option<T>: None is <<>>, Some(x) is <<x>>
None == <<>>
Some(x) == <<x>>

(***************************************************************************)
(* Origins                                                                 *)
(***************************************************************************)
real(expr) == [syntax_expr |-> expr, synthesized |-> FALSE]

synthesized_origin(expr) == [syntax_expr |-> expr, synthesized |-> TRUE]

\* <ExprOrigin as IntoOrigin>::synthesized
force_synthesized(origin) == synthesized_origin(origin.syntax_expr)

ExprKinds == {"exprs", "places", "target_places"}

\* may the origin of this kind of entry be forced to synthesized?
can_synthesize(kind, origin) ==
    CASE kind \in ExprKinds -> TRUE
      [] kind = "local_variables" -> origin.lvo = "Temporary"
      [] kind = "named_exprs" -> FALSE

maybe_synthesized(kind, origin, s) ==
    IF s /\ kind \in ExprKinds THEN force_synthesized(origin) ELSE origin

(***************************************************************************)
(* The validator as a value: `this` is what the code calls self, with the  *)
(* db's diagnostics and the panic of the process threaded along.           *)
(***************************************************************************)
Ret(this, r) == [v |-> this, r |-> r]

fail(this, what, expr) ==
    IF this.panic # <<>> THEN this
    ELSE [this EXCEPT !.panic = <<[assertion |-> what, expr |-> expr]>>]

\* the call that returned `result` panicked: the caller unwinds with it
panicked(result) == result.v.panic # <<>>

add(this, kind, value, origin) ==
    LET key == Len(this.tables[kind]) + 1
        that == [this EXCEPT
                    !.tables[kind] = Append(@, value),
                    !.origins[kind] = Append(@, maybe_synthesized(kind, origin, this.synthesized))]
    IN  Ret(IF this.synthesized /\ ~can_synthesize(kind, origin)
            THEN fail(that, "cannot force origin to be synthesized", <<>>)
            ELSE that,
            key)

emit(this, message, span, labels) ==
    [this EXCEPT !.diagnostics =
        Append(@, [message |-> message, span |-> span, labels |-> labels])]

span(expr) == [of |-> expr, kw |-> "expr"]

keyword_span(expr, kw) == [of |-> expr, kw |-> kw]

return_type_span == [of |-> <<>>, kw |-> "return_type"]

(***************************************************************************)
(* Name lookup (name_lookup.rs)                                            *)
(***************************************************************************)
Definition(d, id) == [d |-> d, id |-> id]

scope_insert(sc, name, lv) ==
    [names |-> Append(sc.names, [name |-> name, def |-> Definition("LocalVariable", lv)]),
     inserted |-> Append(sc.inserted, lv)]

scope_insert_temporary(sc, lv) == [sc EXCEPT !.inserted = Append(@, lv)]

scope_lookup(sc, name) ==
    LET hits == {i \in DOMAIN sc.names : sc.names[i].name = name}
    IN  IF hits = {} THEN None
        ELSE Some(sc.names[CHOOSE i \in hits : \A j \in hits : j <= i].def)

scope_subscope(sc) == [names |-> sc.names, inserted |-> <<>>]

scope_take_inserted(sc) == sc.inserted

(***************************************************************************)
(* Results of the fallible operations: Result<T, ErrorReported>            *)
(***************************************************************************)
Ok(x) == [ok |-> TRUE, val |-> x]

Err == [ok |-> FALSE]

(***************************************************************************)
(* Integer literals: str::parse of a tuple of characters.  A value is kept *)
(* as its decimal digits without leading zeros: 2^64 does not fit TLC's    *)
(* integers.                                                               *)
(***************************************************************************)
DigitChars == {"0", "1", "2", "3", "4", "5", "6", "7", "8", "9"}

DigitValue(c) ==
    CASE c = "0" -> 0 [] c = "1" -> 1 [] c = "2" -> 2 [] c = "3" -> 3 [] c = "4" -> 4
      [] c = "5" -> 5 [] c = "6" -> 6 [] c = "7" -> 7 [] c = "8" -> 8 [] c = "9" -> 9

U64Max == <<"1","8","4","4","6","7","4","4","0","7","3","7","0","9","5","5","1","6","1","5">>

I64Max == <<"9","2","2","3","3","7","2","0","3","6","8","5","4","7","7","5","8","0","7">>

I64MinMagnitude == <<"9","2","2","3","3","7","2","0","3","6","8","5","4","7","7","5","8","0","8">>

RECURSIVE strip_zeros(_)
strip_zeros(ds) ==
    IF Len(ds) > 1 /\ Head(ds) = "0" THEN strip_zeros(Tail(ds)) ELSE ds

RECURSIVE lex_le(_, _)
lex_le(x, y) ==
    IF x = <<>> THEN TRUE
    ELSE IF DigitValue(Head(x)) # DigitValue(Head(y))
         THEN DigitValue(Head(x)) < DigitValue(Head(y))
         ELSE lex_le(Tail(x), Tail(y))

\* x <= y, for two values
digits_le(x, y) == Len(x) < Len(y) \/ (Len(x) = Len(y) /\ lex_le(x, y))

all_digits(s) == s # <<>> /\ \A i \in DOMAIN s : s[i] \in DigitChars

u64_from_str(s) ==
    LET body == IF s # <<>> /\ Head(s) = "+" THEN Tail(s) ELSE s
    IN  IF all_digits(body) /\ digits_le(strip_zeros(body), U64Max)
        THEN Ok(strip_zeros(body))
        ELSE Err

\* mutant: a signed value is accepted up to the unsigned bound
i64_from_str_unsigned_range(s) ==
    LET signed == s # <<>> /\ Head(s) \in {"+", "-"}
        neg == s # <<>> /\ Head(s) = "-"
        body == IF signed THEN Tail(s) ELSE s
        mag == strip_zeros(body)
    IN  IF all_digits(body) /\ digits_le(mag, U64Max)
        THEN Ok([neg |-> neg /\ mag # <<"0">>, digits |-> mag])
        ELSE Err

i64_from_str(s) ==
    LET signed == s # <<>> /\ Head(s) \in {"+", "-"}
        neg == s # <<>> /\ Head(s) = "-"
        body == IF signed THEN Tail(s) ELSE s
        mag == strip_zeros(body)
    IN  IF all_digits(body) /\ digits_le(mag, IF neg THEN I64MinMagnitude ELSE I64Max)
        THEN Ok([neg |-> neg /\ mag # <<"0">>, digits |-> mag])
        ELSE Err

f64_from_str(s) ==
    LET dot == CHOOSE i \in DOMAIN s : s[i] = "."
        int == SubSeq(s, 1, dot - 1)
        frac == SubSeq(s, dot + 1, Len(s))
        digits(w) == \A i \in DOMAIN w : w[i] \in DigitChars
    IN  IF digits(int) /\ digits(frac) /\ int \o frac # <<>>
        THEN Ok([int |-> int, frac |-> frac])
        ELSE Err

without_underscore(chars) == SelectSeq(chars, LAMBDA c : c # "_")

(***************************************************************************)
(* String literals: a str is the tuple of its characters                   *)
(***************************************************************************)
\* char::is_whitespace, on the characters of the inputs
is_whitespace(c) == c \in {" ", "\t", "\n", "\r"}

RECURSIVE trim_start(_)
trim_start(s) ==
    IF s # <<>> /\ is_whitespace(Head(s)) THEN trim_start(Tail(s)) ELSE s

RECURSIVE trim_end(_)
trim_end(s) ==
    IF s # <<>> /\ is_whitespace(s[Len(s)]) THEN trim_end(SubSeq(s, 1, Len(s) - 1)) ELSE s

\* str::trim
trim(s) == trim_end(trim_start(s))

RECURSIVE lines(_)
\* str::lines: a line ends at "\n" or at "\r\n", a last line that is empty
\* is no line
lines(s) ==
    IF s = <<>> THEN <<>>
    ELSE LET ends == {i \in DOMAIN s : s[i] = "\n"}
         IN  IF ends = {} THEN <<s>>
             ELSE LET end == CHOOSE i \in ends : \A j \in ends : i <= j
                      line == SubSeq(s, 1, end - 1)
                  IN  <<IF line # <<>> /\ line[Len(line)] = "\r"
                        THEN SubSeq(line, 1, Len(line) - 1)
                        ELSE line>>
                          \o lines(SubSeq(s, end + 1, Len(s)))

RECURSIVE count_bytes_in_common(_, _)
count_bytes_in_common(s1, s2) ==
    IF s1 # <<>> /\ s2 # <<>> /\ Head(s1) = Head(s2)
    THEN 1 + count_bytes_in_common(Tail(s1), Tail(s2))
    ELSE 0

escape(ch) ==
    CASE ch = "n" -> "\n"
      [] ch = "t" -> "\t"
      [] ch = "r" -> "\r"
      [] ch = "\\" -> "\\"
      [] ch = "\"" -> "\""

RECURSIVE support_escape(_)
support_escape(s) ==
    IF s = <<>> THEN <<>>
    ELSE IF Head(s) = "\\" /\ Len(s) > 1 /\ s[2] \in {"n", "r", "t", "\"", "\\"}
         THEN <<escape(s[2])>> \o support_escape(Tail(Tail(s)))
         ELSE <<Head(s)>> \o support_escape(Tail(s))

RECURSIVE take_while_whitespace(_)
\* first_line.chars().take_while(|c| c.is_whitespace()).collect()
take_while_whitespace(line) ==
    IF line # <<>> /\ is_whitespace(Head(line))
    THEN <<Head(line)>> \o take_while_whitespace(Tail(line))
    ELSE <<>>

RECURSIVE min_common(_, _)
\* the .min() of count_bytes_in_common(prefix, s) over the lines, None on no line
min_common(prefix, ls) ==
    IF ls = <<>> THEN None
    ELSE LET n == count_bytes_in_common(prefix, Head(ls))
             rest == min_common(prefix, Tail(ls))
         IN  IF rest = None \/ n <= rest[1] THEN Some(n) ELSE rest

RECURSIVE push_lines(_, _, _)
\* the for loop over s.lines().enumerate(): what it pushes to buf from line i on
push_lines(ls, i, common_indent) ==
    IF i > Len(ls) THEN <<>>
    ELSE (IF i > 1 THEN <<"\n">> ELSE <<>>)
            \o (IF trim(ls[i]) = <<>> THEN ls[i]
                ELSE SubSeq(ls[i], common_indent + 1, Len(ls[i])))
            \o push_lines(ls, i + 1, common_indent)

\* mutant: at most one character of the indent is stripped, and the whole is
\* trimmed at its end only
convert_to_dada_string_one_character(s) ==
    IF Len(lines(s)) = 1 THEN support_escape(s)
    ELSE LET non_empty_line_iter == SelectSeq(lines(s), LAMBDA line : trim(line) # <<>>)
         IN  IF non_empty_line_iter # <<>>
             THEN LET prefix == take_while_whitespace(Head(non_empty_line_iter))
                      common == min_common(prefix, Tail(non_empty_line_iter))
                      common_indent == IF common = None \/ common[1] = 0 THEN 0 ELSE 1
                  IN  support_escape(trim_end(push_lines(lines(s), 1, common_indent)))
             ELSE <<>>

\* mutant: the common indent is taken to be that of the first line
convert_to_dada_string_first_indent(s) ==
    IF Len(lines(s)) = 1 THEN support_escape(s)
    ELSE LET non_empty_line_iter == SelectSeq(lines(s), LAMBDA line : trim(line) # <<>>)
         IN  IF non_empty_line_iter # <<>>
             THEN LET prefix == take_while_whitespace(Head(non_empty_line_iter))
                      common == min_common(prefix, <<Head(non_empty_line_iter)>>)
                      common_indent == IF common = None THEN 0 ELSE common[1]
                  IN  support_escape(trim(push_lines(lines(s), 1, common_indent)))
             ELSE <<>>

convert_to_dada_string(s) ==
    IF Len(lines(s)) = 1 THEN support_escape(s)
    ELSE LET non_empty_line_iter == SelectSeq(lines(s), LAMBDA line : trim(line) # <<>>)
         IN  IF non_empty_line_iter # <<>>
             THEN LET prefix == take_while_whitespace(Head(non_empty_line_iter))
                      common == min_common(prefix, Tail(non_empty_line_iter))
                      common_indent == IF common = None THEN 0 ELSE common[1]
                  IN  support_escape(trim(push_lines(lines(s), 1, common_indent)))
             ELSE <<>>

(***************************************************************************)
(* Effects (effect.rs)                                                     *)
(***************************************************************************)
permits_await(eff) == eff = "Async"

(***************************************************************************)
(* Validator                                                               *)
(***************************************************************************)
give == "My"

leased == "Leased"

RECURSIVE validate_expr_in_mode(_, _, _), give_validated_expr(_, _),
          reserve_validated_expr(_, _), validate_expr_and_exit(_, _, _),
          validate_expr_as_place(_, _), validate_expr_in_temporary(_, _, _),
          validate_expr_as_target_place(_, _, _), validated_assignment(_, _, _, _),
          validate_op_eq(_, _), validate_permission_expr(_, _, _, _),
          validate_named_expr(_, _), validate_named_exprs(_, _),
          is_place_expression(_)

\* the fn span the caller hands to Validator::new
fn_effect_span == [of |-> <<>>, kw |-> "fn"]

new(c, sc) ==
    [tables |-> [exprs |-> <<>>, places |-> <<>>, target_places |-> <<>>,
                 local_variables |-> <<>>, named_exprs |-> <<>>],
     origins |-> [exprs |-> <<>>, places |-> <<>>, target_places |-> <<>>,
                  local_variables |-> <<>>, named_exprs |-> <<>>],
     loop_stack |-> <<>>,
     scope |-> sc,
     effect |-> c.effect,
     effect_span |-> fn_effect_span,
     synthesized |-> FALSE,
     diagnostics |-> <<>>,
     panic |-> <<>>]

\* tables and origins are the same borrowed tables; the rest is forked
subscope(this) == [this EXCEPT !.scope = scope_subscope(@)]

\* the borrow of a subscope ends: self goes on with the shared tables
resume(this, sub) ==
    [this EXCEPT !.tables = sub.tables, !.origins = sub.origins,
                 !.diagnostics = sub.diagnostics, !.panic = sub.panic]

with_loop_expr(this, e) == [this EXCEPT !.loop_stack = Append(@, e)]

with_effect(this, eff, eff_span) ==
    [this EXCEPT !.effect = eff, !.effect_span = eff_span]

or_error(this, result, origin) ==
    IF result.ok THEN Ret(this, result.val)
    ELSE add(this, "exprs", [k |-> "Error"], real(origin))

empty_tuple(this, origin) ==
    add(this, "exprs", [k |-> "Tuple", exprs |-> <<>>], real(origin))

validate_parameter(this, decl) ==
    LET decl_data == code.parameters[decl]
        lv == add(this, "local_variables",
                  [name |-> Some(decl_data.name),
                   specifier |-> Some(decl_data.specifier),
                   atomic |-> decl_data.atomic],
                  [lvo |-> "Parameter", decl |-> <<decl>>])
    IN  [lv.v EXCEPT !.scope = scope_insert(@, decl_data.name, lv.r)]

\* self.origins[e].synthesized()
synthesized_origin_of(this, e) == force_synthesized(this.origins.exprs[e])

\* mutant: the expressions that come before the final one are dropped
seq_only_final(this, exprs, final_expr) == Ret(this, final_expr)

seq(this, exprs, final_expr) ==
    IF exprs = <<>> THEN Ret(this, final_expr)
    ELSE add(this, "exprs", [k |-> "Seq", exprs |-> Append(exprs, final_expr)],
             synthesized_origin_of(this, final_expr))

\* mutant: the variables of a subscope are never declared
exit_without_declare(this, validated_expr) == Ret(this, validated_expr)

\* mutant: the result of a subscope is wrapped in a Declare even when the
\* subscope has introduced no variable
exit_always_declares(this, validated_expr) ==
    add(this, "exprs",
        [k |-> "Declare", vars |-> scope_take_inserted(this.scope), expr |-> validated_expr],
        synthesized_origin_of(this, validated_expr))

exit(this, validated_expr) ==
    LET vs == scope_take_inserted(this.scope)
    IN  IF vs = <<>> THEN Ret(this, validated_expr)
        ELSE add(this, "exprs", [k |-> "Declare", vars |-> vs, expr |-> validated_expr],
                 synthesized_origin_of(this, validated_expr))

store_validated_expr_in_temporary(this, validated_expr) ==
    LET origin == synthesized_origin_of(this, validated_expr)
        in_place(assign, place) == Ret(place.v, [expr |-> assign.r, place |-> place.r])
        place_of(lv, assign) ==
            in_place(assign,
                     add(assign.v, "places", [k |-> "LocalVariable", lv |-> lv.r], origin))
        assign_temporary(lv) ==
            place_of(lv,
                     add([lv.v EXCEPT !.scope = scope_insert_temporary(@, lv.r)], "exprs",
                         [k |-> "AssignTemporary", lv |-> lv.r, expr |-> validated_expr],
                         origin))
    IN  assign_temporary(add(this, "local_variables",
                             [name |-> None, specifier |-> None, atomic |-> "No"],
                             [lvo |-> "Temporary", syntax_expr |-> origin.syntax_expr]))

\* mutant: a place is given whatever the mode
place_to_expr_always_gives(this, result, origin, mode) ==
    IF result.ok
    THEN LET place_expr == add(this, "exprs",
                               [k |-> "Give", place |-> result.val.place], origin)
         IN  seq(place_expr.v, result.val.opt, place_expr.r)
    ELSE add(this, "exprs", [k |-> "Error"], origin)

place_to_expr(this, result, origin, mode) ==
    IF result.ok
    THEN LET opt_assign_expr == result.val.opt
             place == result.val.place
         IN  CASE mode \in {"My", "Any"} ->
                    LET place_expr == add(this, "exprs", [k |-> "Give", place |-> place], origin)
                    IN  seq(place_expr.v, opt_assign_expr, place_expr.r)
               [] mode = "Leased" ->
                    LET place_expr == add(this, "exprs", [k |-> "Lease", place |-> place], origin)
                    IN  seq(place_expr.v, opt_assign_expr, place_expr.r)
               [] mode = "Reserve" ->
                    LET place_expr == add(this, "exprs", [k |-> "Reserve", place |-> place], origin)
                    IN  seq(place_expr.v, opt_assign_expr, place_expr.r)
               [] mode = "Our" ->
                    LET given_expr == add(this, "exprs", [k |-> "Give", place |-> place], origin)
                        shared_expr == add(given_expr.v, "exprs",
                                           [k |-> "Share", expr |-> given_expr.r], origin)
                    IN  seq(shared_expr.v, opt_assign_expr, shared_expr.r)
               [] mode = "Shleased" ->
                    LET place_expr == add(this, "exprs", [k |-> "Shlease", place |-> place], origin)
                    IN  seq(place_expr.v, opt_assign_expr, place_expr.r)
    ELSE add(this, "exprs", [k |-> "Error"], origin)

\* mutant: the operator of a compound assignment is kept as it is
validated_op_kept(op) == op

validated_op(op) ==
    CASE op = "PlusEqual" -> "Plus"
      [] op = "MinusEqual" -> "Minus"
      [] op = "TimesEqual" -> "Times"
      [] op = "DividedByEqual" -> "DividedBy"
      [] op \in {"EqualEqual", "GreaterEqual", "LessEqual", "Plus", "Minus", "Times",
                 "DividedBy", "LessThan", "GreaterThan"} -> op

is_place_expression(expr) ==
    CASE data(expr).k \in {"Id", "Dot"} -> TRUE
      [] data(expr).k = "Parenthesized" -> is_place_expression(kid(expr, 1))
      [] OTHER -> FALSE

give_validated_expr(this, expr) ==
    LET assert_eq(result) ==
            IF panicked(result) THEN result
            ELSE IF result.v.origins.exprs[result.r].syntax_expr = expr
            THEN result
            ELSE Ret(fail(result.v, "give_validated_expr: assert_eq", expr), result.r)
    IN  assert_eq(validate_expr_in_mode(this, expr, give))

reserve_validated_expr(this, expr) ==
    LET assert_eq(result) ==
            IF panicked(result) THEN result
            ELSE IF result.v.origins.exprs[result.r].syntax_expr = expr
            THEN result
            ELSE Ret(fail(result.v, "reserve_validated_expr: assert_eq", expr), result.r)
    IN  assert_eq(validate_expr_in_mode(this, expr, "Reserve"))

validate_expr_in_temporary(this, expr, mode) ==
    LET store(validated_expr) ==
            IF panicked(validated_expr) THEN validated_expr
            ELSE store_validated_expr_in_temporary(validated_expr.v, validated_expr.r)
    IN  store(validate_expr_in_mode(this, expr, mode))

validate_expr_and_exit(this, expr, mode) ==
    LET leave(validated_expr) ==
            IF panicked(validated_expr) THEN validated_expr
            ELSE exit(validated_expr.v, validated_expr.r)
    IN  leave(validate_expr_in_mode(this, expr, mode))

validate_expr_as_place(this, expr) ==
    LET d == data(expr)
        local_or_item(def) ==
            IF def.d = "LocalVariable"
            THEN [k |-> "LocalVariable", lv |-> def.id]
            ELSE [k |-> def.d, id |-> def.id]
        placed(place, opt) == Ret(place.v, Ok([opt |-> opt, place |-> place.r]))
        field_of(owner) ==
            IF panicked(owner) \/ ~owner.r.ok THEN owner
            ELSE placed(add(owner.v, "places",
                            [k |-> "Dot", owner |-> owner.r.val.place, field |-> d.a[1]],
                            real(expr)),
                        owner.r.val.opt)
        in_temporary(t) ==
            IF panicked(t) THEN t
            ELSE Ret(t.v, Ok([opt |-> Some(t.r.expr), place |-> t.r.place]))
    IN  CASE d.k = "Id" ->
               LET found == scope_lookup(this.scope, d.a[1])
               IN  IF found = None
                   THEN Ret(emit(this, "can't find anything named", span(expr), <<>>), Err)
                   ELSE placed(add(this, "places", local_or_item(found[1]), real(expr)), None)
          [] d.k = "Dot" -> field_of(validate_expr_as_place(this, kid(expr, 1)))
          [] d.k = "Parenthesized" -> validate_expr_as_place(this, kid(expr, 1))
          [] d.k = "Error" -> Ret(this, Err)
          [] OTHER -> in_temporary(validate_expr_in_temporary(this, expr, give))

validate_permission_expr(this, perm_expr, target_expr, perm_variant) ==
    LET in_seq(opt_temporary_expr, permission_expr) ==
            seq(permission_expr.v, opt_temporary_expr, permission_expr.r)
        permit(p) ==
            IF panicked(p) THEN p
            ELSE IF ~p.r.ok THEN or_error(p.v, Err, perm_expr)
            ELSE in_seq(p.r.val.opt,
                        add(p.v, "exprs", [k |-> perm_variant, place |-> p.r.val.place],
                            real(perm_expr)))
    IN  permit(validate_expr_as_place(this, target_expr))

\* mutant: the owner of a field is validated to be given, whatever the owner mode
validate_expr_as_target_place_given_owner(this, expr, owner_mode) ==
    LET d == data(expr)
        placed(place, opt) == Ret(place.v, Ok([opt |-> opt, place |-> place.r]))
        field_of(t) ==
            IF panicked(t) THEN t
            ELSE placed(add(t.v, "target_places",
                            [k |-> "Dot", owner |-> t.r.place, field |-> d.a[1]],
                            real(expr)),
                        Some(t.r.expr))
        refuse(ignored) ==
            IF panicked(ignored) THEN ignored
            ELSE Ret(emit(ignored.v,
                          "you can only assign to local variables and fields, not arbitrary expressions",
                          span(expr), <<>>), Err)
    IN  CASE d.k = "Dot" ->
               field_of(validate_expr_in_temporary(this, kid(expr, 1), give))
          [] d.k = "Id" ->
               LET found == scope_lookup(this.scope, d.a[1])
               IN  CASE found = None ->
                          Ret(emit(this, "can't find anything named", span(expr), <<>>), Err)
                     [] found # None /\ found[1].d = "LocalVariable" ->
                          placed(add(this, "target_places",
                                     [k |-> "LocalVariable", lv |-> found[1].id],
                                     real(expr)),
                                 None)
                     [] OTHER ->
                          Ret(emit(this, "you can only assign to local variables or fields",
                                   span(expr), <<>>), Err)
          [] d.k = "Parenthesized" ->
               validate_expr_as_target_place(this, kid(expr, 1), owner_mode)
          [] OTHER -> refuse(give_validated_expr(this, expr))

validate_expr_as_target_place(this, expr, owner_mode) ==
    LET d == data(expr)
        placed(place, opt) == Ret(place.v, Ok([opt |-> opt, place |-> place.r]))
        field_of(t) ==
            IF panicked(t) THEN t
            ELSE placed(add(t.v, "target_places",
                            [k |-> "Dot", owner |-> t.r.place, field |-> d.a[1]],
                            real(expr)),
                        Some(t.r.expr))
        refuse(ignored) ==
            IF panicked(ignored) THEN ignored
            ELSE Ret(emit(ignored.v,
                          "you can only assign to local variables and fields, not arbitrary expressions",
                          span(expr), <<>>), Err)
    IN  CASE d.k = "Dot" ->
               field_of(validate_expr_in_temporary(this, kid(expr, 1), owner_mode))
          [] d.k = "Id" ->
               LET found == scope_lookup(this.scope, d.a[1])
               IN  CASE found = None ->
                          Ret(emit(this, "can't find anything named", span(expr), <<>>), Err)
                     [] found # None /\ found[1].d = "LocalVariable" ->
                          placed(add(this, "target_places",
                                     [k |-> "LocalVariable", lv |-> found[1].id],
                                     real(expr)),
                                 None)
                     [] OTHER ->
                          Ret(emit(this, "you can only assign to local variables or fields",
                                   span(expr), <<>>), Err)
          [] d.k = "Parenthesized" ->
               validate_expr_as_target_place(this, kid(expr, 1), owner_mode)
          [] OTHER -> refuse(give_validated_expr(this, expr))

\* mutant: the initializer is stored in a temporary even when it is a place
validated_assignment_always_in_temporary(this, target_place, initializer_expr, origin) ==
    LET from_temporary(t) ==
            IF panicked(t) THEN t
            ELSE seq(add(t.v, "exprs",
                         [k |-> "AssignFromPlace", target |-> target_place,
                          source |-> t.r.place],
                         real(origin)).v,
                     <<t.r.expr>>,
                     Len(t.v.tables.exprs) + 1)
    IN  from_temporary(validate_expr_in_temporary(this, initializer_expr, give))

validated_assignment(this, target_place, initializer_expr, origin) ==
    LET in_seq(opt_temporary_expr, assignment_expr) ==
            seq(assignment_expr.v, opt_temporary_expr, assignment_expr.r)
        from_place(p) ==
            IF panicked(p) THEN p
            ELSE IF ~p.r.ok THEN or_error(p.v, Err, origin)
            ELSE in_seq(p.r.val.opt,
                        add(p.v, "exprs",
                            [k |-> "AssignFromPlace", target |-> target_place,
                             source |-> p.r.val.place],
                            real(origin)))
        from_temporary(t) ==
            IF panicked(t) THEN t
            ELSE in_seq(<<t.r.expr>>,
                        add(t.v, "exprs",
                            [k |-> "AssignFromPlace", target |-> target_place,
                             source |-> t.r.place],
                            real(origin)))
    IN  IF is_place_expression(initializer_expr)
        THEN from_place(validate_expr_as_place(this, initializer_expr))
        ELSE from_temporary(validate_expr_in_temporary(this, initializer_expr, give))

validate_op_eq(this, op_eq_expr) ==
    LET lhs_expr == kid(op_eq_expr, 1)
        rhs_expr == kid(op_eq_expr, 2)
        op == data(op_eq_expr).a[1]
        in_seq(lease_owner_expr, temporary_expr, assign_field_expr) ==
            LET s == seq(assign_field_expr.v, lease_owner_expr \o <<temporary_expr>>,
                         assign_field_expr.r)
            IN  Ret(s.v, Ok(s.r))
        assign_field(tp, t) ==
            in_seq(tp.r.val.opt, t.r.expr,
                   add(t.v, "exprs",
                       [k |-> "AssignFromPlace", target |-> tp.r.val.place,
                        source |-> t.r.place],
                       real(op_eq_expr)))
        in_temporary(tp, validated_op_expr) ==
            assign_field(tp, store_validated_expr_in_temporary(validated_op_expr.v,
                                                               validated_op_expr.r))
        apply_op(tp, validated_lhs_expr, validated_rhs_expr) ==
            IF panicked(validated_rhs_expr) THEN validated_rhs_expr
            ELSE in_temporary(tp,
                     add(validated_rhs_expr.v, "exprs",
                         [k |-> "Op", lhs |-> validated_lhs_expr.r, op |-> validated_op(op),
                          rhs |-> validated_rhs_expr.r],
                         synthesized_origin(op_eq_expr)))
        give_rhs(tp, validated_lhs_expr) ==
            apply_op(tp, validated_lhs_expr,
                     give_validated_expr(validated_lhs_expr.v, rhs_expr))
        give_lhs(tp, lhs_place) ==
            give_rhs(tp, add(lhs_place.v, "exprs", [k |-> "Give", place |-> lhs_place.r],
                             synthesized_origin(lhs_expr)))
        lhs_place_of(target) ==
            IF target.k = "LocalVariable"
            THEN [k |-> "LocalVariable", lv |-> target.lv]
            ELSE [k |-> "Dot", owner |-> target.owner, field |-> target.field]
        read_target(tp) ==
            IF panicked(tp) \/ ~tp.r.ok THEN tp
            ELSE give_lhs(tp, add(tp.v, "places",
                                  lhs_place_of(tp.v.tables.target_places[tp.r.val.place]),
                                  synthesized_origin(lhs_expr)))
    IN  read_target(validate_expr_as_target_place(this, lhs_expr, leased))

\* a syntax::NamedExpr is the position of an argument in its call
named_exprs_of(expr) ==
    [i \in 1 .. Len(data(expr).a) |-> [call |-> expr, index |-> i]]

named_expr_data(named_expr) ==
    [name |-> [word |-> IF data(named_expr.call).a[named_expr.index] = ""
                        THEN None
                        ELSE Some(data(named_expr.call).a[named_expr.index]),
               span |-> keyword_span(kid(named_expr.call, named_expr.index + 1), "name")],
     expr |-> kid(named_expr.call, named_expr.index + 1)]

\* mutant: an argument is validated to be given
validate_named_expr_gives(this, named_expr) ==
    LET nd == named_expr_data(named_expr)
        named(validated_expr) ==
            IF panicked(validated_expr) THEN validated_expr
            ELSE add(validated_expr.v, "named_exprs",
                     [name |-> nd.name, expr |-> validated_expr.r], named_expr)
    IN  named(give_validated_expr(this, nd.expr))

validate_named_expr(this, named_expr) ==
    LET nd == named_expr_data(named_expr)
        named(validated_expr) ==
            IF panicked(validated_expr) THEN validated_expr
            ELSE add(validated_expr.v, "named_exprs",
                     [name |-> nd.name, expr |-> validated_expr.r], named_expr)
    IN  named(reserve_validated_expr(this, nd.expr))

\* the first of the elements is done, the collection goes on with the rest
collect(first, rest) ==
    IF panicked(rest) THEN rest ELSE Ret(rest.v, <<first.r>> \o rest.r)

validate_named_exprs(this, named_exprs) ==
    LET go_on(first) ==
            IF panicked(first) THEN first
            ELSE collect(first, validate_named_exprs(first.v, Tail(named_exprs)))
    IN  IF named_exprs = <<>> THEN Ret(this, <<>>)
        ELSE go_on(validate_named_expr(this, Head(named_exprs)))

RECURSIVE give_validated_exprs(_, _), reserve_validated_exprs(_, _)
\* exprs.iter().map(|expr| self.give_validated_expr(*expr)).collect()
give_validated_exprs(this, exprs) ==
    LET go_on(first) ==
            IF panicked(first) THEN first
            ELSE collect(first, give_validated_exprs(first.v, Tail(exprs)))
    IN  IF exprs = <<>> THEN Ret(this, <<>>)
        ELSE go_on(give_validated_expr(this, Head(exprs)))

\* element_exprs.iter().map(|expr| self.reserve_validated_expr(*expr)).collect()
reserve_validated_exprs(this, exprs) ==
    LET go_on(first) ==
            IF panicked(first) THEN first
            ELSE collect(first, reserve_validated_exprs(first.v, Tail(exprs)))
    IN  IF exprs = <<>> THEN Ret(this, <<>>)
        ELSE go_on(reserve_validated_expr(this, Head(exprs)))

kids_of(expr) == [i \in 1 .. Len(data(expr).kids) |-> kid(expr, i)]

validate_integer_literal(this, expr) ==
    LET suffix == data(expr).a[1]
        without == without_underscore(Tail(data(expr).a))
        parse_error(message) ==
            add(emit(this, message, span(expr), <<>>), "exprs", [k |-> "Error"], real(expr))
    IN  CASE suffix = "u" ->
               LET v == u64_from_str(without)
               IN  IF v.ok
                   THEN add(this, "exprs",
                            [k |-> "UnsignedIntegerLiteral", digits |-> v.val], real(expr))
                   ELSE parse_error("is not a valid integer")
          [] suffix = "i" ->
               LET v == i64_from_str(without)
               IN  IF v.ok
                   THEN add(this, "exprs",
                            [k |-> "SignedIntegerLiteral", neg |-> v.val.neg,
                             digits |-> v.val.digits], real(expr))
                   ELSE parse_error("is not a valid integer")
          [] suffix = "" ->
               LET v == u64_from_str(without)
               IN  IF v.ok
                   THEN add(this, "exprs", [k |-> "IntegerLiteral", digits |-> v.val],
                            real(expr))
                   ELSE parse_error("is not a valid integer")
          [] OTHER -> parse_error("is not a valid integer suffxi")

validate_float_literal(this, expr) ==
    LET v == f64_from_str(without_underscore(data(expr).a))
    IN  IF v.ok
        THEN add(this, "exprs",
                 [k |-> "FloatLiteral", int |-> v.val.int, frac |-> v.val.frac], real(expr))
        ELSE add(emit(this, "is not a valid float", span(expr), <<>>),
                 "exprs", [k |-> "Error"], real(expr))

validate_await(this, expr) ==
    LET refused ==
            CASE this.effect = "Atomic" ->
                    emit(this, "await is not permitted inside atomic sections",
                         keyword_span(expr, "await"), <<this.effect_span>>)
              [] this.effect = "Default" ->
                    emit(this, "await is not permitted outside of async functions",
                         keyword_span(expr, "await"), <<this.effect_span>>)
              [] this.effect = "Async" -> fail(this, "unreachable", expr)
        await(validated_future_expr) ==
            IF panicked(validated_future_expr) THEN validated_future_expr
            ELSE add(validated_future_expr.v, "exprs",
                     [k |-> "Await", expr |-> validated_future_expr.r], real(expr))
    IN  await(give_validated_expr(IF ~permits_await(this.effect) THEN refused ELSE this,
                                  kid(expr, 1)))

\* mutant: no argument is ever required to be named
check_names_never_required(this, validated_named_exprs, name_required) == this

RECURSIVE check_names(_, _, _)
\* the for loop of the Call arm over validated_named_exprs
check_names(this, validated_named_exprs, name_required) ==
    IF validated_named_exprs = <<>> THEN this
    ELSE LET name == this.tables.named_exprs[Head(validated_named_exprs)].name
         IN  IF name.word # None
             THEN check_names(this, Tail(validated_named_exprs), TRUE)
             ELSE IF name_required
                  THEN check_names(emit(this, "parameter name required", name.span, <<>>),
                                   Tail(validated_named_exprs), name_required)
                  ELSE check_names(this, Tail(validated_named_exprs), name_required)

validate_call(this, expr) ==
    LET call(validated_func_expr, validated_named_exprs) ==
            IF panicked(validated_named_exprs) THEN validated_named_exprs
            ELSE add(check_names(validated_named_exprs.v, validated_named_exprs.r, FALSE),
                     "exprs",
                     [k |-> "Call", func |-> validated_func_expr.r,
                      args |-> validated_named_exprs.r],
                     real(expr))
        arguments(validated_func_expr) ==
            IF panicked(validated_func_expr) THEN validated_func_expr
            ELSE call(validated_func_expr,
                      validate_named_exprs(validated_func_expr.v, named_exprs_of(expr)))
    IN  arguments(reserve_validated_expr(this, kid(expr, 1)))

validate_give(this, expr) ==
    IF is_place_expression(kid(expr, 1))
    THEN validate_permission_expr(this, expr, kid(expr, 1), "Give")
    ELSE give_validated_expr(this, kid(expr, 1))

\* mutant: the variable is inserted into the scope once its initializer is
\* validated
validate_var_declared_late(this, expr) ==
    LET decl_data == data(expr).a
        insert(local_variable, assigned) ==
            IF panicked(assigned) THEN assigned
            ELSE Ret([assigned.v EXCEPT
                         !.scope = scope_insert(@, decl_data[1], local_variable.r)],
                     assigned.r)
        assign(local_variable, target_place) ==
            insert(local_variable,
                   validated_assignment(target_place.v, target_place.r, kid(expr, 1), expr))
        declare(local_variable) ==
            assign(local_variable,
                   add(local_variable.v, "target_places",
                       [k |-> "LocalVariable", lv |-> local_variable.r],
                       synthesized_origin(expr)))
    IN  declare(add(this, "local_variables",
                    [name |-> Some(decl_data[1]), specifier |-> Some(decl_data[2]),
                     atomic |-> decl_data[3]],
                    [lvo |-> "LocalVariable", decl |-> expr]))

validate_var(this, expr) ==
    LET decl_data == data(expr).a
        assign(target_place) ==
            validated_assignment(target_place.v, target_place.r, kid(expr, 1), expr)
        declare(local_variable) ==
            assign(add([local_variable.v EXCEPT
                           !.scope = scope_insert(@, decl_data[1], local_variable.r)],
                       "target_places",
                       [k |-> "LocalVariable", lv |-> local_variable.r],
                       synthesized_origin(expr)))
    IN  declare(add(this, "local_variables",
                    [name |-> Some(decl_data[1]), specifier |-> Some(decl_data[2]),
                     atomic |-> decl_data[3]],
                    [lvo |-> "LocalVariable", decl |-> expr]))

\* the subscope `sub` has validated a branch or a body: self goes on
resumed(this, sub) ==
    IF panicked(sub) THEN sub ELSE Ret(resume(this, sub.v), sub.r)

validate_if(this, expr, mode) ==
    LET if_expr(validated_condition_expr, validated_then_expr, validated_else_expr) ==
            IF panicked(validated_else_expr) THEN validated_else_expr
            ELSE add(validated_else_expr.v, "exprs",
                     [k |-> "If", cond |-> validated_condition_expr.r,
                      then |-> validated_then_expr.r, else |-> validated_else_expr.r],
                     real(expr))
        else_branch(validated_condition_expr, validated_then_expr) ==
            IF panicked(validated_then_expr) THEN validated_then_expr
            ELSE if_expr(validated_condition_expr, validated_then_expr,
                         IF Len(data(expr).kids) = 2
                         THEN empty_tuple(validated_then_expr.v, expr)
                         ELSE resumed(validated_then_expr.v,
                                      validate_expr_and_exit(subscope(validated_then_expr.v),
                                                             kid(expr, 3), mode)))
        then_branch(validated_condition_expr) ==
            IF panicked(validated_condition_expr) THEN validated_condition_expr
            ELSE else_branch(validated_condition_expr,
                             resumed(validated_condition_expr.v,
                                     validate_expr_and_exit(
                                         subscope(validated_condition_expr.v),
                                         kid(expr, 2), mode)))
    IN  then_branch(give_validated_expr(this, kid(expr, 1)))

\* mutant: the subscope of the atomic body keeps the effect of its parent
validate_atomic_keeps_effect(this, expr, mode) ==
    LET atomic(validated_atomic_expr) ==
            IF panicked(validated_atomic_expr) THEN validated_atomic_expr
            ELSE add(validated_atomic_expr.v, "exprs",
                     [k |-> "Atomic", expr |-> validated_atomic_expr.r], real(expr))
    IN  atomic(resumed(this, validate_expr_and_exit(subscope(this), kid(expr, 1), mode)))

validate_atomic(this, expr, mode) ==
    LET atomic(validated_atomic_expr) ==
            IF panicked(validated_atomic_expr) THEN validated_atomic_expr
            ELSE add(validated_atomic_expr.v, "exprs",
                     [k |-> "Atomic", expr |-> validated_atomic_expr.r], real(expr))
    IN  atomic(resumed(this,
                       validate_expr_and_exit(
                           with_effect(subscope(this), "Atomic", keyword_span(expr, "atomic")),
                           kid(expr, 1), mode)))

\* mutant: the body of a loop is validated in the mode of the loop
validate_loop_in_mode(this, expr, mode) ==
    LET fixup(loop_expr, validated_body_expr) ==
            IF panicked(validated_body_expr) THEN validated_body_expr
            ELSE Ret([validated_body_expr.v EXCEPT !.tables.exprs[loop_expr.r] =
                         [k |-> "Loop", expr |-> validated_body_expr.r]],
                     loop_expr.r)
        body(loop_expr) ==
            fixup(loop_expr,
                  resumed(loop_expr.v,
                          validate_expr_and_exit(
                              with_loop_expr(subscope(loop_expr.v), loop_expr.r),
                              kid(expr, 1), mode)))
    IN  body(add(this, "exprs", [k |-> "Error"], real(expr)))

\* mutant: the slot of the loop is left as the placeholder it was allocated as
validate_loop_without_fixup(this, expr, mode) ==
    LET fixup(loop_expr, validated_body_expr) ==
            IF panicked(validated_body_expr) THEN validated_body_expr
            ELSE Ret(validated_body_expr.v, loop_expr.r)
        body(loop_expr) ==
            fixup(loop_expr,
                  resumed(loop_expr.v,
                          validate_expr_and_exit(
                              with_loop_expr(subscope(loop_expr.v), loop_expr.r),
                              kid(expr, 1), "My")))
    IN  body(add(this, "exprs", [k |-> "Error"], real(expr)))

\* mutant: the fix-up of the loop slot writes its origin anew, synthesized
validate_loop_fixup_with_origin(this, expr, mode) ==
    LET fixup(loop_expr, validated_body_expr) ==
            IF panicked(validated_body_expr) THEN validated_body_expr
            ELSE Ret([validated_body_expr.v EXCEPT
                         !.tables.exprs[loop_expr.r] =
                             [k |-> "Loop", expr |-> validated_body_expr.r],
                         !.origins.exprs[loop_expr.r] = synthesized_origin(expr)],
                     loop_expr.r)
        body(loop_expr) ==
            fixup(loop_expr,
                  resumed(loop_expr.v,
                          validate_expr_and_exit(
                              with_loop_expr(subscope(loop_expr.v), loop_expr.r),
                              kid(expr, 1), "My")))
    IN  body(add(this, "exprs", [k |-> "Error"], real(expr)))

validate_loop(this, expr, mode) ==
    LET fixup(loop_expr, validated_body_expr) ==
            IF panicked(validated_body_expr) THEN validated_body_expr
            ELSE Ret([validated_body_expr.v EXCEPT !.tables.exprs[loop_expr.r] =
                         [k |-> "Loop", expr |-> validated_body_expr.r]],
                     loop_expr.r)
        body(loop_expr) ==
            fixup(loop_expr,
                  resumed(loop_expr.v,
                          validate_expr_and_exit(
                              with_loop_expr(subscope(loop_expr.v), loop_expr.r),
                              kid(expr, 1), "My")))
    IN  body(add(this, "exprs", [k |-> "Error"], real(expr)))

\* mutant: the slot of the loop is never overwritten with the Loop
validate_while_without_fixup(this, expr, mode) ==
    LET fixup(loop_expr, loop_body) == Ret(loop_body.v, loop_expr.r)
        in_seq(loop_expr, validated_body_expr, if_break_expr) ==
            fixup(loop_expr,
                  add(if_break_expr.v, "exprs",
                      [k |-> "Seq", exprs |-> <<validated_body_expr.r, if_break_expr.r>>],
                      real(expr)))
        if_break(loop_expr, validated_condition_expr, validated_body_expr, unit,
                 break_expr) ==
            in_seq(loop_expr, validated_body_expr,
                   add(break_expr.v, "exprs",
                       [k |-> "If", cond |-> validated_condition_expr.r,
                        then |-> unit.r, else |-> break_expr.r],
                       real(expr)))
        break(loop_expr, validated_condition_expr, validated_body_expr, unit) ==
            if_break(loop_expr, validated_condition_expr, validated_body_expr, unit,
                     add(unit.v, "exprs",
                         [k |-> "Break", from_expr |-> loop_expr.r, with_value |-> unit.r],
                         real(expr)))
        desugar(loop_expr, validated_condition_expr, validated_body_expr) ==
            IF panicked(validated_body_expr) THEN validated_body_expr
            ELSE break(loop_expr, validated_condition_expr, validated_body_expr,
                       empty_tuple(validated_body_expr.v, expr))
        body(loop_expr, validated_condition_expr) ==
            IF panicked(validated_condition_expr) THEN validated_condition_expr
            ELSE desugar(loop_expr, validated_condition_expr,
                         resumed(validated_condition_expr.v,
                                 validate_expr_and_exit(
                                     with_loop_expr(subscope(validated_condition_expr.v),
                                                    loop_expr.r),
                                     kid(expr, 2), mode)))
        condition(loop_expr) ==
            body(loop_expr, give_validated_expr(loop_expr.v, kid(expr, 1)))
    IN  condition(add(this, "exprs", [k |-> "Error"], real(expr)))

\* mutant: the condition is tested before the body runs
validate_while_test_first(this, expr, mode) ==
    LET fixup(loop_expr, loop_body) ==
            Ret([loop_body.v EXCEPT !.tables.exprs[loop_expr.r] =
                    [k |-> "Loop", expr |-> loop_body.r]],
                loop_expr.r)
        in_seq(loop_expr, validated_body_expr, if_break_expr) ==
            fixup(loop_expr,
                  add(if_break_expr.v, "exprs",
                      [k |-> "Seq", exprs |-> <<if_break_expr.r, validated_body_expr.r>>],
                      real(expr)))
        if_break(loop_expr, validated_condition_expr, validated_body_expr, unit,
                 break_expr) ==
            in_seq(loop_expr, validated_body_expr,
                   add(break_expr.v, "exprs",
                       [k |-> "If", cond |-> validated_condition_expr.r,
                        then |-> unit.r, else |-> break_expr.r],
                       real(expr)))
        break(loop_expr, validated_condition_expr, validated_body_expr, unit) ==
            if_break(loop_expr, validated_condition_expr, validated_body_expr, unit,
                     add(unit.v, "exprs",
                         [k |-> "Break", from_expr |-> loop_expr.r, with_value |-> unit.r],
                         real(expr)))
        desugar(loop_expr, validated_condition_expr, validated_body_expr) ==
            IF panicked(validated_body_expr) THEN validated_body_expr
            ELSE break(loop_expr, validated_condition_expr, validated_body_expr,
                       empty_tuple(validated_body_expr.v, expr))
        body(loop_expr, validated_condition_expr) ==
            IF panicked(validated_condition_expr) THEN validated_condition_expr
            ELSE desugar(loop_expr, validated_condition_expr,
                         resumed(validated_condition_expr.v,
                                 validate_expr_and_exit(
                                     with_loop_expr(subscope(validated_condition_expr.v),
                                                    loop_expr.r),
                                     kid(expr, 2), mode)))
        condition(loop_expr) ==
            body(loop_expr, give_validated_expr(loop_expr.v, kid(expr, 1)))
    IN  condition(add(this, "exprs", [k |-> "Error"], real(expr)))

validate_while(this, expr, mode) ==
    LET fixup(loop_expr, loop_body) ==
            Ret([loop_body.v EXCEPT !.tables.exprs[loop_expr.r] =
                    [k |-> "Loop", expr |-> loop_body.r]],
                loop_expr.r)
        in_seq(loop_expr, validated_body_expr, if_break_expr) ==
            fixup(loop_expr,
                  add(if_break_expr.v, "exprs",
                      [k |-> "Seq", exprs |-> <<validated_body_expr.r, if_break_expr.r>>],
                      real(expr)))
        if_break(loop_expr, validated_condition_expr, validated_body_expr, unit,
                 break_expr) ==
            in_seq(loop_expr, validated_body_expr,
                   add(break_expr.v, "exprs",
                       [k |-> "If", cond |-> validated_condition_expr.r,
                        then |-> unit.r, else |-> break_expr.r],
                       real(expr)))
        break(loop_expr, validated_condition_expr, validated_body_expr, unit) ==
            if_break(loop_expr, validated_condition_expr, validated_body_expr, unit,
                     add(unit.v, "exprs",
                         [k |-> "Break", from_expr |-> loop_expr.r, with_value |-> unit.r],
                         real(expr)))
        desugar(loop_expr, validated_condition_expr, validated_body_expr) ==
            IF panicked(validated_body_expr) THEN validated_body_expr
            ELSE break(loop_expr, validated_condition_expr, validated_body_expr,
                       empty_tuple(validated_body_expr.v, expr))
        body(loop_expr, validated_condition_expr) ==
            IF panicked(validated_condition_expr) THEN validated_condition_expr
            ELSE desugar(loop_expr, validated_condition_expr,
                         resumed(validated_condition_expr.v,
                                 validate_expr_and_exit(
                                     with_loop_expr(subscope(validated_condition_expr.v),
                                                    loop_expr.r),
                                     kid(expr, 2), mode)))
        condition(loop_expr) ==
            body(loop_expr, give_validated_expr(loop_expr.v, kid(expr, 1)))
    IN  condition(add(this, "exprs", [k |-> "Error"], real(expr)))

\* mutant: the owner of the field a plain assignment writes is leased
validate_assign_leasing_owner(this, expr) ==
    LET in_seq(tp, assign_expr) ==
            IF panicked(assign_expr) THEN assign_expr
            ELSE seq(assign_expr.v, tp.r.val.opt, assign_expr.r)
        assign(tp) ==
            IF panicked(tp) THEN tp
            ELSE IF ~tp.r.ok THEN or_error(tp.v, Err, expr)
            ELSE in_seq(tp, validated_assignment(tp.v, tp.r.val.place, kid(expr, 2), expr))
    IN  assign(validate_expr_as_target_place(this, kid(expr, 1), leased))

validate_assign(this, expr) ==
    LET in_seq(tp, assign_expr) ==
            IF panicked(assign_expr) THEN assign_expr
            ELSE seq(assign_expr.v, tp.r.val.opt, assign_expr.r)
        assign(tp) ==
            IF panicked(tp) THEN tp
            ELSE IF ~tp.r.ok THEN or_error(tp.v, Err, expr)
            ELSE in_seq(tp, validated_assignment(tp.v, tp.r.val.place, kid(expr, 2), expr))
    IN  assign(validate_expr_as_target_place(this, kid(expr, 1), "Reserve"))

\* mutant: a return is never checked against the return type
validate_return_unchecked(this, expr) ==
    LET with_value == data(expr).kids
        checked == this
        return(validated_expr) ==
            IF panicked(validated_expr) THEN validated_expr
            ELSE add(validated_expr.v, "exprs", [k |-> "Return", expr |-> validated_expr.r],
                     real(expr))
    IN  return(IF with_value # <<>> THEN give_validated_expr(checked, kid(expr, 1))
               ELSE empty_tuple(checked, expr))

validate_return(this, expr) ==
    LET with_value == data(expr).kids
        checked ==
            CASE code.return_type = "Value" /\ with_value = <<>> ->
                    emit(this, "return requires an expression", span(expr),
                         <<return_type_span>>)
              [] code.return_type = "Unit" /\ with_value # <<>> ->
                    emit(this, "cannot return a value in this function",
                         span(kid(expr, 1)), <<return_type_span>>)
              [] OTHER -> this
        return(validated_expr) ==
            IF panicked(validated_expr) THEN validated_expr
            ELSE add(validated_expr.v, "exprs", [k |-> "Return", expr |-> validated_expr.r],
                     real(expr))
    IN  return(IF with_value # <<>> THEN give_validated_expr(checked, kid(expr, 1))
               ELSE empty_tuple(checked, expr))

validate_expr_in_mode(this, expr, mode) ==
    LET d == data(expr)
        to_expr(place) ==
            IF panicked(place) THEN place
            ELSE place_to_expr(place.v, place.r, synthesized_origin(expr), mode)
        share(validated_target_expr) ==
            IF panicked(validated_target_expr) THEN validated_target_expr
            ELSE add(validated_target_expr.v, "exprs",
                     [k |-> "Share", expr |-> validated_target_expr.r], real(expr))
        tuple(validated_exprs) ==
            IF panicked(validated_exprs) THEN validated_exprs
            ELSE add(validated_exprs.v, "exprs",
                     [k |-> "Tuple", exprs |-> validated_exprs.r], real(expr))
        binary(validated_lhs_expr, validated_rhs_expr) ==
            IF panicked(validated_rhs_expr) THEN validated_rhs_expr
            ELSE add(validated_rhs_expr.v, "exprs",
                     [k |-> "Op", lhs |-> validated_lhs_expr.r,
                      op |-> validated_op(d.a[1]),
                      rhs |-> validated_rhs_expr.r], real(expr))
        rhs_of(validated_lhs_expr) ==
            IF panicked(validated_lhs_expr) THEN validated_lhs_expr
            ELSE binary(validated_lhs_expr,
                    give_validated_expr(validated_lhs_expr.v, kid(expr, 2)))
        unary(validated_rhs_expr) ==
            IF panicked(validated_rhs_expr) THEN validated_rhs_expr
            ELSE add(validated_rhs_expr.v, "exprs",
                     [k |-> "Unary", op |-> validated_op(d.a[1]),
                      rhs |-> validated_rhs_expr.r], real(expr))
        op_eq(result) ==
            IF panicked(result) THEN result
            ELSE or_error(result.v, result.r, expr)
        in_seq(validated_exprs) ==
            IF panicked(validated_exprs) THEN validated_exprs
            ELSE add(validated_exprs.v, "exprs",
                     [k |-> "Seq", exprs |-> validated_exprs.r], real(expr))
    IN  CASE d.k \in {"Dot", "Id"} -> to_expr(validate_expr_as_place(this, expr))
          [] d.k = "BooleanLiteral" ->
               add(this, "exprs", [k |-> "BooleanLiteral", bool |-> d.a[1] = "true"],
                   real(expr))
          [] d.k = "IntegerLiteral" -> validate_integer_literal(this, expr)
          [] d.k = "FloatLiteral" -> validate_float_literal(this, expr)
          [] d.k = "StringLiteral" ->
               add(this, "exprs",
                   [k |-> "StringLiteral", word |-> convert_to_dada_string(d.a)],
                   real(expr))
          [] d.k = "Await" -> validate_await(this, expr)
          [] d.k = "Call" -> validate_call(this, expr)
          [] d.k = "Share" -> share(give_validated_expr(this, kid(expr, 1)))
          [] d.k = "Lease" -> validate_permission_expr(this, expr, kid(expr, 1), "Lease")
          [] d.k = "Shlease" -> validate_permission_expr(this, expr, kid(expr, 1), "Shlease")
          [] d.k = "Give" -> validate_give(this, expr)
          [] d.k = "Var" -> validate_var(this, expr)
          [] d.k = "Parenthesized" -> validate_expr_in_mode(this, kid(expr, 1), mode)
          [] d.k = "Tuple" -> tuple(reserve_validated_exprs(this, kids_of(expr)))
          [] d.k = "If" -> validate_if(this, expr, mode)
          [] d.k = "Atomic" -> validate_atomic(this, expr, mode)
          [] d.k = "Loop" -> validate_loop(this, expr, mode)
          [] d.k = "While" -> validate_while(this, expr, mode)
          [] d.k = "Op" -> rhs_of(give_validated_expr(this, kid(expr, 1)))
          [] d.k = "Unary" -> unary(give_validated_expr(this, kid(expr, 1)))
          [] d.k = "OpEq" -> op_eq(validate_op_eq(this, expr))
          [] d.k = "Assign" -> validate_assign(this, expr)
          [] d.k = "Error" -> add(this, "exprs", [k |-> "Error"], real(expr))
          [] d.k = "Seq" -> in_seq(give_validated_exprs(this, kids_of(expr)))
          [] d.k = "Return" -> validate_return(this, expr)

\* mutant: an empty body of a function that returns a value is not reported
give_validated_root_expr_unreported(this, expr) ==
    LET push(validated_expr, root, unit) ==
            IF root.k = "Seq"
            THEN Ret([unit.v EXCEPT !.tables.exprs[validated_expr.r].exprs =
                                        Append(@, unit.r)],
                     validated_expr.r)
            ELSE add(unit.v, "exprs",
                     [k |-> "Seq", exprs |-> <<validated_expr.r, unit.r>>],
                     synthesized_origin(expr))
        check(validated_expr, root) ==
            IF code.return_type = "Value"
            THEN validated_expr
            ELSE push(validated_expr, root,
                      add(validated_expr.v, "exprs", [k |-> "Tuple", exprs |-> <<>>],
                          synthesized_origin(expr)))
        root_of(validated_expr) ==
            IF panicked(validated_expr) THEN validated_expr
            ELSE check(validated_expr, validated_expr.v.tables.exprs[validated_expr.r])
    IN  root_of(give_validated_expr(this, expr))

\* mutant: the unit is never appended to the Seq of the body, a new Seq is made
give_validated_root_expr_new_seq(this, expr) ==
    LET push(validated_expr, root, unit) ==
            add(unit.v, "exprs",
                [k |-> "Seq", exprs |-> <<validated_expr.r, unit.r>>],
                synthesized_origin(expr))
        check(validated_expr, root) ==
            IF code.return_type = "Value"
            THEN IF root.k = "Seq" /\ root.exprs = <<>>
                 THEN Ret(emit(validated_expr.v, "function body cannot be empty",
                               return_type_span, <<>>),
                          validated_expr.r)
                 ELSE validated_expr
            ELSE push(validated_expr, root,
                      add(validated_expr.v, "exprs", [k |-> "Tuple", exprs |-> <<>>],
                          synthesized_origin(expr)))
        root_of(validated_expr) ==
            IF panicked(validated_expr) THEN validated_expr
            ELSE check(validated_expr, validated_expr.v.tables.exprs[validated_expr.r])
    IN  root_of(give_validated_expr(this, expr))

give_validated_root_expr(this, expr) ==
    LET push(validated_expr, root, unit) ==
            IF root.k = "Seq"
            THEN Ret([unit.v EXCEPT !.tables.exprs[validated_expr.r].exprs =
                                        Append(@, unit.r)],
                     validated_expr.r)
            ELSE add(unit.v, "exprs",
                     [k |-> "Seq", exprs |-> <<validated_expr.r, unit.r>>],
                     synthesized_origin(expr))
        check(validated_expr, root) ==
            IF code.return_type = "Value"
            THEN IF root.k = "Seq" /\ root.exprs = <<>>
                 THEN Ret(emit(validated_expr.v, "function body cannot be empty",
                               return_type_span, <<>>),
                          validated_expr.r)
                 ELSE validated_expr
            ELSE push(validated_expr, root,
                      add(validated_expr.v, "exprs", [k |-> "Tuple", exprs |-> <<>>],
                          synthesized_origin(expr)))
        root_of(validated_expr) ==
            IF panicked(validated_expr) THEN validated_expr
            ELSE check(validated_expr, validated_expr.v.tables.exprs[validated_expr.r])
    IN  root_of(give_validated_expr(this, expr))

(***************************************************************************)
(* Inputs: the syntax trees are the contexts of at most MaxDepth levels    *)
(* around a core expression.                                               *)
(***************************************************************************)
MaxDepth == 2

MaxArgs == 3

Id(name) == N("Id", <<>>, <<name>>)

Int1 == N("IntegerLiteral", <<>>, <<"", "1">>)

U1(k, t) == N(k, <<t>>, <<>>)

VarDecl(name, t) == N("Var", <<t>>, <<name, "Any", "No">>)

\* the argument lists of a call of MaxArgs arguments, each named or not
ArgNames == [1 .. MaxArgs -> {"", "n"}]

\* g(first, 1, ..., 1) under each naming of its arguments
Calls(first) ==
    {N("Call", <<Id("g")>> \o [i \in DOMAIN names |-> IF i = 1 THEN first ELSE Int1], names) :
        names \in ArgNames}

\* the compound assignment operators
OpEqOps == {"PlusEqual", "MinusEqual", "TimesEqual", "DividedByEqual"}

\* return, without a value
Return0 == N("Return", <<>>, <<>>)

\* an integer literal: the suffix ("" for none) and the characters of the word
Lit(suffix, chars) == N("IntegerLiteral", <<>>, <<suffix>> \o chars)

\* the suffixes of a literal: none, u, i, and one that is no suffix
Suffixes == {"", "u", "i", "x"}

\* the words of the integer literals: small values, the bounds of the 64-bit
\* ranges (2^64 - 1, 2^64, 2^63 - 1, 2^63) and values around them, with
\* underscores and with leading zeros
Words ==
    {<<"0">>,
     <<"1">>,
     <<"0","_","0","_","7">>,
     <<"1","8","4","4","6","7","4","4","0","7","3","7","0","9","5","5","1","6","1","5">>,
     <<"1","8","_","4","4","6","_","7","4","4","_","0","7","3","_","7","0","9","_","5","5","1","_","6","1","5">>,
     <<"1","8","4","4","6","7","4","4","0","7","3","7","0","9","5","5","1","6","1","6">>,
     <<"9","2","2","3","3","7","2","0","3","6","8","5","4","7","7","5","8","0","7">>,
     <<"9","2","2","3","3","7","2","0","3","6","8","5","4","7","7","5","8","0","8">>,
     <<"9","_","2","2","3","_","3","7","2","_","0","3","6","_","8","5","4","_","7","7","5","_","8","0","8">>,
     <<"1","7","9","9","9","9","9","9","9","9","9","9","9","9","9","9","9","9","9","9">>,
     <<"9","9","9","9","9","9","9","9","9","9","9","9","9","9","9","9","9","9","9","9">>,
     <<"1","0","0","0","0","0","0","0","0","0","0","0","0","0","0","0","0","0","0","0","0">>,
     <<"0","1","8","4","4","6","7","4","4","0","7","3","7","0","9","5","5","1","6","1","5">>,
     <<"9","2","2","3","3","7","2","0","3","6","8","5","4","7","7","5","7","9","9">>}

\* the longest string of the string literals drawn character by character
MaxLen == 5

\* the most lines of the string literals drawn line by line
MaxLines == 4

\* the characters of the string literals: whitespace, a letter, and what
\* makes an escape sequence
Chars == {" ", "\t", "\n", "a", "\\", "n"}

\* the lines of the string literals drawn line by line: blank, indented by
\* spaces or by a tab, with whitespace behind
LineForms ==
    {<<>>, <<" ">>, <<" ", " ">>, <<"a">>, <<" ", "a">>, <<" ", " ", "a">>,
     <<"\t", "a">>, <<" ", "a", " ">>}

RECURSIVE JoinLines(_)
JoinLines(ls) ==
    IF Len(ls) = 1 THEN ls[1] ELSE ls[1] \o <<"\n">> \o JoinLines(Tail(ls))

\* the words of the string literals
Strs ==
    UNION {[1 .. n -> Chars] : n \in 0 .. MaxLen}
        \cup {JoinLines(ls) : ls \in UNION {[1 .. n -> LineForms] : n \in 2 .. MaxLines}}

Cores(family) ==
    CASE family = "order" ->
            {Id("x"), Id("u"), Int1}
      [] family = "string" ->
            {N("StringLiteral", <<>>, s) : s \in Strs}
      [] family = "literal" ->
            {Lit(suffix, chars) : suffix \in Suffixes, chars \in Words}
      [] family = "return" ->
            {Id("x"), Id("u"), Int1, Return0}
      [] family = "scope" ->
            {Id("x"), Id("y"), Int1, VarDecl("y", Int1)}
      [] family = "assign" ->
            {Id("x"), Id("u"), Id("g"), Int1}
      [] family = "general" ->
            {Id("x"), Id("u"), Id("g"), Int1, N("Error", <<>>, <<>>), N("Seq", <<>>, <<>>)}
      [] family = "effect" ->
            {U1("Await", Id("x")), Id("x")}
      [] family = "mode" ->
            {Id("x"), Id("u"), Id("g"), Int1}
      [] family = "call" ->
            {Id("x"), Int1}
      [] family = "loop" ->
            {Id("x"), Id("u"), Int1}

Contexts(family, t) ==
    CASE family = "order" ->
            {N("Call", <<Id("g"), Int1, Int1, t>>, <<"n", "", "">>),
             N("Call", <<Id("g"), t, Int1>>, <<"n", "">>),
             N("Call", <<t, Id("u")>>, <<"">>),
             N("Seq", <<t, Id("u")>>, <<>>),
             N("Seq", <<Id("u"), t>>, <<>>),
             N("Op", <<t, Id("u")>>, <<"Plus">>),
             N("Op", <<Id("u"), t>>, <<"Plus">>),
             N("If", <<Id("u"), t, Id("u")>>, <<>>),
             N("While", <<t, Id("u")>>, <<>>),
             N("Assign", <<Id("x"), t>>, <<>>)}
      [] family = "string" -> {}
      [] family = "literal" ->
            {U1("Seq", t),
             N("Seq", <<t, Int1>>, <<>>),
             N("Op", <<t, Int1>>, <<"Plus">>)}
      [] family = "return" ->
            {U1("Return", t), U1("Seq", t), U1("Atomic", t), U1("Loop", t),
             N("Dot", <<t>>, <<"f">>),
             N("Seq", <<t, Return0>>, <<>>),
             N("If", <<Id("x"), t>>, <<>>),
             N("If", <<Id("x"), t, Return0>>, <<>>),
             N("While", <<Id("x"), t>>, <<>>),
             N("Op", <<t, Int1>>, <<"Plus">>),
             N("Call", <<Id("g"), t>>, <<"">>)}
      [] family = "scope" ->
            {U1("Atomic", t), U1("Loop", t), U1("Seq", t),
             VarDecl("x", t),
             VarDecl("y", t),
             VarDecl("z", t),
             N("Dot", <<t>>, <<"f">>),
             N("If", <<Id("x"), t>>, <<>>),
             N("If", <<Id("x"), t, VarDecl("z", Id("y"))>>, <<>>),
             N("If", <<t, Int1>>, <<>>),
             N("While", <<Id("x"), t>>, <<>>),
             N("While", <<t, Int1>>, <<>>),
             N("Seq", <<t, Id("y")>>, <<>>),
             N("Seq", <<t, N("Assign", <<Id("y"), Id("x")>>, <<>>)>>, <<>>),
             N("OpEq", <<t, Int1>>, <<"PlusEqual">>),
             N("Assign", <<Id("x"), t>>, <<>>),
             N("Call", <<Id("g"), t>>, <<"">>)}
      [] family = "assign" ->
            {N("OpEq", <<t, Int1>>, <<op>>) : op \in OpEqOps}
                \cup {U1("Parenthesized", t), U1("Atomic", t), U1("Seq", t),
                      N("Dot", <<t>>, <<"f">>),
                      VarDecl("y", t),
                      N("OpEq", <<Id("x"), t>>, <<"PlusEqual">>),
                      N("Assign", <<t, Int1>>, <<>>),
                      N("Assign", <<t, Id("u")>>, <<>>),
                      N("Assign", <<Id("x"), t>>, <<>>),
                      N("Seq", <<VarDecl("y", Int1), t>>, <<>>),
                      N("If", <<Id("x"), t>>, <<>>),
                      N("Call", <<Id("g"), t>>, <<"">>)}
      [] family = "general" ->
            {U1("Share", t), U1("Lease", t), U1("Give", t),
             U1("Parenthesized", t), U1("Atomic", t), U1("Loop", t), U1("Return", t),
             U1("Seq", t),
             N("Dot", <<t>>, <<"f">>),
             VarDecl("y", t),
             N("Seq", <<t, Id("x")>>, <<>>),
             N("If", <<Id("x"), t>>, <<>>),
             N("While", <<Id("x"), t>>, <<>>),
             N("Op", <<t, Int1>>, <<"Plus">>),
             N("OpEq", <<t, Int1>>, <<"PlusEqual">>),
             N("OpEq", <<Id("x"), t>>, <<"PlusEqual">>),
             N("Assign", <<t, Int1>>, <<>>),
             N("Assign", <<Id("x"), t>>, <<>>),
             N("Call", <<Id("g"), t>>, <<"">>)}
      [] family = "effect" ->
            {U1("Await", t), U1("Atomic", t), U1("Loop", t), U1("Seq", t),
             U1("Return", t),
             VarDecl("y", t),
             N("Seq", <<U1("Atomic", Id("x")), t>>, <<>>),
             N("Seq", <<U1("Atomic", U1("Await", Id("x"))), t>>, <<>>),
             N("If", <<t, Int1>>, <<>>),
             N("If", <<Id("x"), t>>, <<>>),
             N("If", <<Id("x"), U1("Atomic", Int1), t>>, <<>>),
             N("While", <<t, Int1>>, <<>>),
             N("While", <<Id("x"), t>>, <<>>),
             N("Op", <<U1("Atomic", Int1), t>>, <<"Plus">>),
             N("Assign", <<Int1, t>>, <<>>),
             N("Assign", <<Id("x"), t>>, <<>>),
             N("Call", <<Id("g"), t>>, <<"">>)}
      [] family = "mode" ->
            {U1("Parenthesized", t), U1("Atomic", t), U1("Loop", t), U1("Seq", t),
             U1("Tuple", t), U1("Share", t), U1("Lease", t),
             N("Dot", <<t>>, <<"f">>),
             N("If", <<Id("x"), t>>, <<>>),
             N("If", <<Id("x"), Int1, t>>, <<>>),
             N("If", <<t, Int1, Int1>>, <<>>),
             N("While", <<Id("x"), t>>, <<>>),
             N("While", <<t, Int1>>, <<>>),
             N("Op", <<t, Int1>>, <<"Plus">>),
             N("Assign", <<Id("x"), t>>, <<>>),
             N("Call", <<Id("g"), t>>, <<"">>)}
      [] family = "call" ->
            {U1("Seq", t), N("Call", <<t>>, <<>>)} \cup Calls(t)
      [] family = "loop" ->
            {U1("Loop", t), U1("Seq", t), U1("Atomic", t), U1("Parenthesized", t),
             VarDecl("y", t),
             N("While", <<Id("x"), t>>, <<>>),
             N("While", <<t, Int1>>, <<>>),
             N("While", <<t, Id("x")>>, <<>>),
             N("Seq", <<t, N("While", <<Id("x"), Int1>>, <<>>)>>, <<>>),
             N("If", <<Id("x"), t>>, <<>>),
             N("Op", <<t, Int1>>, <<"Plus">>),
             N("Assign", <<t, Int1>>, <<>>),
             N("Assign", <<Id("x"), t>>, <<>>),
             N("Call", <<Id("g"), t>>, <<"">>)}

Families == {"general", "effect", "mode", "call", "loop", "assign", "scope", "return",
             "literal", "string", "order"}

RECURSIVE Trees(_, _)
Trees(family, depth) ==
    IF depth = 0 THEN Cores(family)
    ELSE Trees(family, depth - 1)
            \cup UNION {Contexts(family, t) : t \in Trees(family, depth - 1)}

Programs(family) == Trees(family, MaxDepth)

Parameters == <<[name |-> "x", specifier |-> "Any", atomic |-> "No"]>>

ReturnTypeKinds == {"Unit", "Value"}

Codes(effects, return_types) ==
    [effect : effects, return_type : return_types, parameters : {Parameters}]

Effects == {"Default", "Async", "Atomic"}

\* the root scope the caller builds from the items of the module
root_scope ==
    [names |-> <<[name |-> "g", def |-> Definition("Function", 1)],
                 [name |-> "C", def |-> Definition("Class", 1)],
                 [name |-> "print", def |-> Definition("Intrinsic", 1)]>>,
     inserted |-> <<>>]

Modes == {"My", "Any", "Leased", "Shleased", "Our", "Reserve"}

(***************************************************************************)
(* The state machine: the caller makes a Validator, validates each         *)
(* parameter, then the body.                                               *)
(***************************************************************************)
Validator ==
    [tables |-> tables, origins |-> origins, loop_stack |-> loop_stack, scope |-> scope,
     effect |-> effect, effect_span |-> effect_span, synthesized |-> synthesized,
     diagnostics |-> diagnostics, panic |-> panic]

Becomes(this) ==
    /\ tables' = this.tables
    /\ origins' = this.origins
    /\ loop_stack' = this.loop_stack
    /\ scope' = this.scope
    /\ effect' = this.effect
    /\ effect_span' = this.effect_span
    /\ synthesized' = this.synthesized
    /\ diagnostics' = this.diagnostics

\* a panic unwinds: nothing of the validation is left to observe
Returns(result, m) ==
    IF result.v.panic # <<>>
    THEN /\ pc' = "panicked"
         /\ panic' = result.v.panic
         /\ UNCHANGED <<tables, origins, loop_stack, scope, effect, effect_span,
                        synthesized, diagnostics, root_expr, syntax_tree, code, entry_mode,
                        bir>>
    ELSE /\ pc' = "done"
         /\ Becomes(result.v)
         /\ root_expr' = result.r
         /\ entry_mode' = m
         /\ UNCHANGED <<panic, syntax_tree, code, bir>>

(***************************************************************************)
(* Bir basic blocks (bir.rs).  A Statement and a Terminator are ids; an     *)
(* index is a usize, counted from 0.                                       *)
(***************************************************************************)
\* the most statements of a basic block
MaxStatements == 3

Statements == 1 .. MaxStatements

Terminators == 1 .. 2

BasicBlockData(statements, terminator) ==
    [statements |-> statements, terminator |-> terminator]

BasicBlocks ==
    {BasicBlockData(statements, terminator) :
        statements \in UNION {[1 .. n -> Statements] : n \in 0 .. MaxStatements},
        terminator \in Terminators}

\* BasicBlockElement
Statement(statement) == [element |-> "Statement", id |-> statement]

Terminator(terminator) == [element |-> "Terminator", id |-> terminator]

\* mutant: the terminator is not counted
elements_of_statements(self) == Len(self.statements)

elements(self) == Len(self.statements) + 1

element_at(self, index) ==
    IF index < Len(self.statements)
    THEN Statement(self.statements[index + 1])
    ELSE Terminator(self.terminator)

\* the block, of which nothing was asked yet
Untouched(basic_block) ==
    [basic_block |-> basic_block, elements |-> None, index |-> None, element |-> None]

InitOf(trees, codes) ==
    /\ syntax_tree \in trees
    /\ code \in codes
    /\ tables = new(code, root_scope).tables
    /\ origins = new(code, root_scope).origins
    /\ loop_stack = <<>>
    /\ scope = root_scope
    /\ effect = code.effect
    /\ effect_span = fn_effect_span
    /\ synthesized = FALSE
    /\ diagnostics = <<>>
    /\ panic = <<>>
    /\ root_expr = 0
    /\ entry_mode = give
    /\ pc = "start"

InitWith(trees, codes) ==
    /\ InitOf(trees, codes)
    /\ bir = Untouched(BasicBlockData(<<>>, 1))

Init == InitWith(Programs("general"), Codes({"Default"}, ReturnTypeKinds))

num_local_variables == Len(tables.local_variables)

ValidateParameter ==
    /\ pc = "start"
    /\ num_local_variables < Len(code.parameters)
    /\ Becomes(validate_parameter(Validator, num_local_variables + 1))
    /\ UNCHANGED <<syntax_tree, code, panic, root_expr, entry_mode, pc, bir>>

GiveValidatedRootExpr ==
    /\ pc = "start"
    /\ num_local_variables = Len(code.parameters)
    /\ Returns(give_validated_root_expr(Validator, <<>>), give)

ValidateExprInMode ==
    /\ pc = "start"
    /\ num_local_variables = Len(code.parameters)
    /\ \E m \in Modes : Returns(validate_expr_in_mode(Validator, <<>>, m), m)

Next == ValidateParameter \/ GiveValidatedRootExpr

Spec == Init /\ [][Next]_vars

NextMode == ValidateParameter \/ ValidateExprInMode

InitMode == InitWith(Programs("mode"), Codes({"Default"}, {"Unit"}))

SpecMode == InitMode /\ [][NextMode]_vars

InitEffect == InitWith(Programs("effect"), Codes(Effects, {"Unit"}))

SpecEffect == InitEffect /\ [][Next]_vars

InitCall == InitWith(Programs("call"), Codes({"Default"}, {"Unit"}))

SpecCall == InitCall /\ [][Next]_vars

InitLoop == InitWith(Programs("loop"), Codes({"Default"}, ReturnTypeKinds))

SpecLoop == InitLoop /\ [][Next]_vars

InitAssign == InitWith(Programs("assign"), Codes({"Default"}, {"Unit"}))

SpecAssign == InitAssign /\ [][NextMode]_vars

InitScope == InitWith(Programs("scope"), Codes({"Default"}, ReturnTypeKinds))

SpecScope == InitScope /\ [][Next]_vars

InitReturn == InitWith(Programs("return"), Codes({"Default"}, ReturnTypeKinds))

SpecReturn == InitReturn /\ [][Next]_vars

InitLiteral == InitWith(Programs("literal"), Codes({"Default"}, {"Unit"}))

SpecLiteral == InitLiteral /\ [][Next]_vars

InitString == InitWith(Programs("string"), Codes({"Default"}, {"Value"}))

SpecString == InitString /\ [][Next]_vars

InitOrder == InitWith(Programs("order"), Codes({"Default"}, {"Unit"}))

SpecOrder == InitOrder /\ [][Next]_vars

\* the indexes asked of a block: those of its elements, and one beyond
Indexes == 0 .. MaxStatements + 1

Elements ==
    /\ bir.elements = None
    /\ bir' = [bir EXCEPT !.elements = Some(elements(bir.basic_block))]
    /\ UNCHANGED <<syntax_tree, code, tables, origins, loop_stack, scope, effect,
                   effect_span, synthesized, diagnostics, panic, root_expr, entry_mode,
                   pc>>

ElementAt ==
    /\ \E index \in Indexes :
          bir' = [bir EXCEPT !.index = Some(index),
                             !.element = Some(element_at(bir.basic_block, index))]
    /\ UNCHANGED <<syntax_tree, code, tables, origins, loop_stack, scope, effect,
                   effect_span, synthesized, diagnostics, panic, root_expr, entry_mode,
                   pc>>

NextBir == Elements \/ ElementAt

InitBir ==
    /\ InitOf({N("Seq", <<>>, <<>>)}, Codes({"Default"}, {"Unit"}))
    /\ bir \in {Untouched(basic_block) : basic_block \in BasicBlocks}

SpecBir == InitBir /\ [][NextBir]_vars

(***************************************************************************)
(* C1.  Whatever syntax expression is handed to give_validated_expr or     *)
(* reserve_validated_expr, the validated expression that comes back has    *)
(* that expression as the syntax_expr of its origin: the assert_eq of      *)
(* these two functions never fails.                                        *)
(***************************************************************************)
C1_AssertEqNeverFails ==
    \A i \in DOMAIN panic :
        panic[i].assertion \notin {"give_validated_expr: assert_eq",
                                   "reserve_validated_expr: assert_eq"}


(***************************************************************************)
(* What the claims read off a state                                        *)
(***************************************************************************)
ExprIds == DOMAIN tables.exprs

\* the validated expressions of one variant
ExprsOf(k) == {e \in ExprIds : tables.exprs[e].k = k}

origin_in(e) == origins.exprs[e]

IsPrefix(q, p) == Len(q) <= Len(p) /\ SubSeq(p, 1, Len(q)) = q

ProperPrefixes(p) == {SubSeq(p, 1, n) : n \in 0 .. Len(p) - 1}

\* the effect the text gives the expression at path p: Atomic inside the body
\* of an atomic block, the effect of the function elsewhere
LexicalEffect(p) ==
    IF \E q \in ProperPrefixes(p) : data(q).k = "Atomic" THEN "Atomic" ELSE code.effect

\* the atomic block nearest around p
NearestAtomic(p) ==
    CHOOSE q \in ProperPrefixes(p) :
        /\ data(q).k = "Atomic"
        /\ \A r \in ProperPrefixes(p) : data(r).k = "Atomic" => Len(r) <= Len(q)

AwaitDiagnostics(p) ==
    {i \in DOMAIN diagnostics : diagnostics[i].span = keyword_span(p, "await")}

(***************************************************************************)
(* C2.  A validated await emits one await diagnostic when the effect at    *)
(* its place in the text is not Async (the function is not async, or the   *)
(* await is inside the body of an atomic block, however deep), and none    *)
(* when it is Async: the Atomic effect of an atomic body ends with the     *)
(* block.  The diagnostic blames the atomic keyword of the nearest block,  *)
(* or the fn.                                                              *)
(***************************************************************************)
C2_AwaitDiagnosticIffNotAsync ==
    pc = "done" =>
        \A e \in ExprsOf("Await") :
            LET p == origin_in(e).syntax_expr
            IN  CASE LexicalEffect(p) = "Async" -> AwaitDiagnostics(p) = {}
                  [] LexicalEffect(p) = "Atomic" ->
                        /\ Cardinality(AwaitDiagnostics(p)) = 1
                        /\ \A i \in AwaitDiagnostics(p) :
                              /\ diagnostics[i].message =
                                    "await is not permitted inside atomic sections"
                              /\ diagnostics[i].labels =
                                    <<IF \E q \in ProperPrefixes(p) : data(q).k = "Atomic"
                                      THEN keyword_span(NearestAtomic(p), "atomic")
                                      ELSE fn_effect_span>>
                  [] LexicalEffect(p) = "Default" ->
                        /\ Cardinality(AwaitDiagnostics(p)) = 1
                        /\ \A i \in AwaitDiagnostics(p) :
                              /\ diagnostics[i].message =
                                    "await is not permitted outside of async functions"
                              /\ diagnostics[i].labels = <<fn_effect_span>>

\* an async function: an await in an atomic block is refused, one after the
\* block is not
C2_Witness ==
    /\ pc = "done"
    /\ code.effect = "Async"
    /\ \E e1, e2 \in ExprsOf("Await") :
          /\ e1 < e2
          /\ \E q \in ProperPrefixes(origin_in(e1).syntax_expr) : data(q).k = "Atomic"
          /\ AwaitDiagnostics(origin_in(e1).syntax_expr) # {}
          /\ LexicalEffect(origin_in(e2).syntax_expr) = "Async"
          /\ AwaitDiagnostics(origin_in(e2).syntax_expr) = {}

(***************************************************************************)
(* C3.  Every Await of the validated tables lies under an Async effect and *)
(* under no atomic block: none was written in a function that is not async *)
(* or in an atomic body.                                                   *)
(***************************************************************************)
C3_AwaitOnlyUnderAsync ==
    pc = "done" =>
        \A e \in ExprsOf("Await") : LexicalEffect(origin_in(e).syntax_expr) = "Async"


(***************************************************************************)
(* The validated tree: the expressions an expression evaluates, in order.  *)
(* Break's from_expr names a loop, it is no operand.                       *)
(***************************************************************************)
children(e) ==
    LET d == tables.exprs[e]
    IN  CASE d.k \in {"Await", "Share", "Return", "Atomic", "Loop", "Declare",
                      "AssignTemporary"} -> <<d.expr>>
          [] d.k = "Call" ->
                <<d.func>> \o [i \in DOMAIN d.args |-> tables.named_exprs[d.args[i]].expr]
          [] d.k \in {"Tuple", "Seq"} -> d.exprs
          [] d.k = "If" -> <<d.cond, d.then, d.else>>
          [] d.k = "Break" -> <<d.with_value>>
          [] d.k = "Op" -> <<d.lhs, d.rhs>>
          [] d.k = "Unary" -> <<d.rhs>>
          [] OTHER -> <<>>

Range(f) == {f[i] : i \in DOMAIN f}

RECURSIVE ReachAvoiding(_, _)
\* what e reaches on the paths that do not go through the expression avoid
ReachAvoiding(e, avoid) ==
    IF e = avoid THEN {}
    ELSE {e} \cup UNION {ReachAvoiding(c, avoid) : c \in Range(children(e))}

Reach(e) == ReachAvoiding(e, 0)

(***************************************************************************)
(* C4.  Every Break{from_expr, with_value} of the finished tables names a  *)
(* slot that holds a Loop, and is reached only from inside the body of     *)
(* that Loop: whatever reaches the Break without going through the Loop is *)
(* itself in the body of the Loop.                                         *)
(***************************************************************************)
C4_BreakInsideItsLoop ==
    pc = "done" =>
        \A b \in ExprsOf("Break") :
            LET from == tables.exprs[b].from_expr
            IN  /\ tables.exprs[from].k = "Loop"
                /\ b \in Reach(tables.exprs[from].expr)
                /\ \A e \in ExprIds :
                      b \in ReachAvoiding(e, from) => e \in Reach(tables.exprs[from].expr)

\* a while in the body of a while: two breaks, each of its own loop
C4_Witness ==
    /\ pc = "done"
    /\ \E b1, b2 \in ExprsOf("Break") :
          /\ tables.exprs[b1].from_expr # tables.exprs[b2].from_expr
          /\ tables.exprs[tables.exprs[b1].from_expr].k = "Loop"
          /\ tables.exprs[b2].from_expr \in Reach(tables.exprs[tables.exprs[b1].from_expr].expr)
          /\ {b1, b2} \subseteq Reach(root_expr)

(***************************************************************************)
(* Temporaries, and the places that use them                               *)
(***************************************************************************)
LocalVariables == DOMAIN tables.local_variables

Temporaries == {lv \in LocalVariables : origins.local_variables[lv].lvo = "Temporary"}

RECURSIVE place_variables(_)
\* the local variables a place names
place_variables(p) ==
    LET d == tables.places[p]
    IN  CASE d.k = "LocalVariable" -> {d.lv}
          [] d.k = "Dot" -> place_variables(d.owner)
          [] OTHER -> {}

target_place_variables(t) ==
    LET d == tables.target_places[t]
    IN  IF d.k = "LocalVariable" THEN {d.lv} ELSE place_variables(d.owner)

\* the local variables an expression itself reads or writes through a place
uses(e) ==
    LET d == tables.exprs[e]
    IN  CASE d.k \in {"Give", "Lease", "Shlease", "Reserve"} -> place_variables(d.place)
          [] d.k = "AssignFromPlace" ->
                target_place_variables(d.target) \cup place_variables(d.source)
          [] OTHER -> {}

RECURSIVE Assigned(_, _), AssignedSeq(_, _)
\* Evaluation of e starts with the temporaries of `before` assigned.
\* [ok: no temporary is used in e before its AssignTemporary,
\*  after: the temporaries assigned when e has been evaluated]
Assigned(e, before) ==
    LET d == tables.exprs[e]
    IN  CASE d.k = "AssignTemporary" ->
                LET x == Assigned(d.expr, before)
                IN  [ok |-> x.ok, after |-> x.after \cup {d.lv}]
          [] d.k = "If" ->
                LET c == Assigned(d.cond, before)
                    t == Assigned(d.then, c.after)
                    f == Assigned(d.else, c.after)
                IN  [ok |-> c.ok /\ t.ok /\ f.ok, after |-> t.after \cap f.after]
          [] d.k = "Loop" ->
                [ok |-> Assigned(d.expr, before).ok, after |-> before]
          [] OTHER ->
                LET x == AssignedSeq(children(e), before)
                IN  [ok |-> x.ok /\ (uses(e) \cap Temporaries) \subseteq x.after,
                     after |-> x.after]

AssignedSeq(es, before) ==
    IF es = <<>> THEN [ok |-> TRUE, after |-> before]
    ELSE LET first == Assigned(Head(es), before)
             rest == AssignedSeq(Tail(es), first.after)
         IN  [ok |-> first.ok /\ rest.ok, after |-> rest.after]

AssignTemporaries(lv) == {e \in ExprsOf("AssignTemporary") : tables.exprs[e].lv = lv}

(***************************************************************************)
(* C5.  A temporary has no name, no specifier and is not atomic; it has    *)
(* exactly one AssignTemporary in the validated tables; and in the tree of *)
(* the root every use of it in a place comes, in evaluation order, after   *)
(* that AssignTemporary.  This holds for every desugaring that makes a     *)
(* temporary, and when errors are reported.                                *)
(***************************************************************************)
C5_TemporaryAssignedBeforeUse ==
    pc = "done" =>
        /\ \A lv \in Temporaries :
              /\ tables.local_variables[lv] =
                    [name |-> None, specifier |-> None, atomic |-> "No"]
              /\ Cardinality(AssignTemporaries(lv)) = 1
        /\ \A e \in ExprsOf("AssignTemporary") : tables.exprs[e].lv \in Temporaries
        /\ Assigned(root_expr, {}).ok

\* owner.field += 1, with the owner a call: two temporaries, and an error
\* reported elsewhere in the function
C5_Witness ==
    /\ pc = "done"
    /\ Cardinality(Temporaries) >= 2
    /\ \E e \in Reach(root_expr) :
          /\ tables.exprs[e].k = "AssignFromPlace"
          /\ tables.target_places[tables.exprs[e].target].k = "Dot"
          /\ target_place_variables(tables.exprs[e].target) \subseteq Temporaries
          /\ place_variables(tables.exprs[e].source) \subseteq Temporaries
    /\ diagnostics # <<>>

(***************************************************************************)
(* The validator as the entry point finds it: made by new, every parameter *)
(* validated.                                                              *)
(***************************************************************************)
RECURSIVE validate_parameters(_, _)
validate_parameters(this, n) ==
    IF n = 0 THEN this ELSE validate_parameter(validate_parameters(this, n - 1), n)

EntryValidator == validate_parameters(new(code, root_scope), Len(code.parameters))

IsEmptySeq(d) == d.k = "Seq" /\ d.exprs = <<>>

EmptyBodyDiagnostics ==
    {i \in DOMAIN diagnostics : diagnostics[i].message = "function body cannot be empty"}

(***************************************************************************)
(* C6, as stated.  For a function that returns a value, the expression     *)
(* give_validated_root_expr returns is never an empty Seq, not even when   *)
(* the body in the source is empty.                                        *)
(***************************************************************************)
C6_ValueRootNeverEmptySeq ==
    (pc = "done" /\ code.return_type = "Value") => ~IsEmptySeq(tables.exprs[root_expr])

(***************************************************************************)
(* C6, amended.  For a function that returns a value, the root expression  *)
(* is an empty Seq exactly when the body in the source is an empty Seq,    *)
(* and exactly then the diagnostic "function body cannot be empty" is      *)
(* emitted, once, at the return type; a function that returns unit never   *)
(* gets that diagnostic.                                                   *)
(***************************************************************************)
C6_EmptyValueRootIsReported ==
    pc = "done" =>
        IF code.return_type = "Value"
        THEN /\ IsEmptySeq(tables.exprs[root_expr]) <=>
                    (syntax_tree.k = "Seq" /\ syntax_tree.kids = <<>>)
             /\ Cardinality(EmptyBodyDiagnostics) =
                    IF IsEmptySeq(tables.exprs[root_expr]) THEN 1 ELSE 0
             /\ \A i \in EmptyBodyDiagnostics :
                    diagnostics[i].span = return_type_span /\ diagnostics[i].labels = <<>>
        ELSE EmptyBodyDiagnostics = {}

\* fn f() -> T { }: the root is the empty Seq, and it is reported
C6_Witness ==
    /\ pc = "done"
    /\ code.return_type = "Value"
    /\ syntax_tree = N("Seq", <<>>, <<>>)
    /\ IsEmptySeq(tables.exprs[root_expr])
    /\ EmptyBodyDiagnostics # {}

(***************************************************************************)
(* C7.  For a function that returns unit, give_validated_root_expr returns *)
(* a Seq whose last element is an empty Tuple of synthesized origin.  With *)
(* body the expression give_validated_expr makes of the source body: if    *)
(* body is a Seq the unit is appended to that very Seq, otherwise a new    *)
(* Seq [body, unit] is made; nothing else of the tables changes.  The      *)
(* empty body { } gives exactly Seq([Tuple([])]).                          *)
(***************************************************************************)
C7_UnitRootEndsWithSynthesizedUnit ==
    LET unit_pushed(body) ==
        LET before == body.v.tables.exprs
            root == tables.exprs[root_expr]
            unit == Len(before) + 1
        IN  /\ root.k = "Seq"
            /\ root.exprs # <<>>
            /\ root.exprs[Len(root.exprs)] = unit
            /\ tables.exprs[unit] = [k |-> "Tuple", exprs |-> <<>>]
            /\ origins.exprs[unit] = [syntax_expr |-> <<>>, synthesized |-> TRUE]
            /\ IF before[body.r].k = "Seq"
               THEN /\ root_expr = body.r
                    /\ root.exprs = Append(before[body.r].exprs, unit)
                    /\ Len(tables.exprs) = unit
                    /\ \A e \in DOMAIN before : e # body.r => tables.exprs[e] = before[e]
                    /\ origins.exprs = Append(body.v.origins.exprs, origins.exprs[unit])
               ELSE /\ root_expr = unit + 1
                    /\ root.exprs = <<body.r, unit>>
                    /\ tables.exprs = before \o <<tables.exprs[unit], root>>
                    /\ origins.exprs = body.v.origins.exprs
                                          \o <<origins.exprs[unit],
                                               [syntax_expr |-> <<>>, synthesized |-> TRUE]>>
            /\ (syntax_tree = N("Seq", <<>>, <<>>)) =>
                  /\ root_expr = 1
                  /\ tables.exprs = <<[k |-> "Seq", exprs |-> <<2>>],
                                      [k |-> "Tuple", exprs |-> <<>>]>>
            /\ diagnostics = body.v.diagnostics
            /\ [kind \in {"places", "target_places", "local_variables", "named_exprs"} |->
                    tables[kind]]
                  = [kind \in {"places", "target_places", "local_variables", "named_exprs"} |->
                        body.v.tables[kind]]
    IN  (pc = "done" /\ code.return_type = "Unit") =>
            unit_pushed(give_validated_expr(EntryValidator, <<>>))

\* a body that is a Seq of two expressions gets the unit as its third; the
\* origin of the Seq stays the real one of the body
C7_Witness ==
    /\ pc = "done"
    /\ code.return_type = "Unit"
    /\ syntax_tree.k = "Seq"
    /\ Len(tables.exprs[root_expr].exprs) = 3
    /\ ~origins.exprs[root_expr].synthesized
    /\ tables.exprs[tables.exprs[root_expr].exprs[3]] = [k |-> "Tuple", exprs |-> <<>>]

(***************************************************************************)
(* Bare places: an identifier, or a dotted path that starts at one         *)
(***************************************************************************)
RECURSIVE IsBarePlace(_), Resolves(_), Denotes(_, _)
IsBarePlace(p) ==
    CASE data(p).k = "Id" -> TRUE
      [] data(p).k = "Dot" -> IsBarePlace(kid(p, 1))
      [] OTHER -> FALSE

\* the identifier the bare place p starts at is in scope at the entry
Resolves(p) ==
    IF data(p).k = "Id" THEN scope_lookup(EntryValidator.scope, data(p).a[1]) # None
    ELSE Resolves(kid(p, 1))

\* the validated place is the place the bare place p names
Denotes(place, p) ==
    LET d == tables.places[place]
    IN  /\ origins.places[place] = [syntax_expr |-> p, synthesized |-> FALSE]
        /\ IF data(p).k = "Id"
           THEN LET def == scope_lookup(EntryValidator.scope, data(p).a[1])[1]
                IN  IF def.d = "LocalVariable"
                    THEN d = [k |-> "LocalVariable", lv |-> def.id]
                    ELSE d = [k |-> def.d, id |-> def.id]
           ELSE /\ d.k = "Dot"
                /\ d.field = data(p).a[1]
                /\ Denotes(d.owner, kid(p, 1))

PlaceExprOf(mode) ==
    CASE mode \in {"My", "Any", "Our"} -> "Give"
      [] mode = "Leased" -> "Lease"
      [] mode = "Shleased" -> "Shlease"
      [] mode = "Reserve" -> "Reserve"

(***************************************************************************)
(* C8.  A bare place p that resolves, validated in a mode, becomes:        *)
(* Give(p) in My and Any, Lease(p) in Leased, Shlease(p) in Shleased,      *)
(* Share(Give(p)) in Our, Reserve(p) in Reserve, and nothing else is added *)
(* to the expressions.  If p does not resolve, the result is an Error      *)
(* expression in every mode.                                               *)
(***************************************************************************)
C8_BarePlaceCoercedByMode ==
    (pc = "done" /\ IsBarePlace(<<>>)) =>
        LET root == tables.exprs[root_expr]
            inner == IF entry_mode = "Our" THEN tables.exprs[root.expr] ELSE root
        IN  IF Resolves(<<>>)
            THEN /\ entry_mode = "Our" =>
                        /\ root.k = "Share"
                        /\ DOMAIN root = {"k", "expr"}
                        /\ root.expr # root_expr
                 /\ inner.k = PlaceExprOf(entry_mode)
                 /\ DOMAIN inner = {"k", "place"}
                 /\ Denotes(inner.place, <<>>)
                 /\ Len(tables.exprs) = IF entry_mode = "Our" THEN 2 ELSE 1
                 /\ diagnostics = <<>>
            ELSE /\ root = [k |-> "Error"]
                 /\ Len(tables.exprs) = 1

\* x.f.f in Our: Share(Give(x.f.f))
C8_Witness ==
    /\ pc = "done"
    /\ entry_mode = "Our"
    /\ syntax_tree.k = "Dot"
    /\ IsBarePlace(<<>>)
    /\ Resolves(<<>>)
    /\ tables.exprs[root_expr].k = "Share"
    /\ tables.places[tables.exprs[tables.exprs[root_expr].expr].place].k = "Dot"

(***************************************************************************)
(* The validated tree of an expression, as a value: every key is replaced  *)
(* by what it holds, and the from_expr of a Break by how many loops out    *)
(* its loop is (0: none of the loops around it).                           *)
(***************************************************************************)
RECURSIVE Unfold(_, _, _), UnfoldPlace(_, _)
UnfoldPlace(t, p) ==
    LET d == t.places[p]
    IN  IF d.k = "Dot"
        THEN [k |-> "Dot", owner |-> UnfoldPlace(t, d.owner), field |-> d.field]
        ELSE d

UnfoldTargetPlace(t, p) ==
    LET d == t.target_places[p]
    IN  IF d.k = "Dot"
        THEN [k |-> "Dot", owner |-> UnfoldPlace(t, d.owner), field |-> d.field]
        ELSE d

Unfold(t, e, loops) ==
    LET d == t.exprs[e]
    IN  CASE d.k \in {"Await", "Share", "Atomic", "Return"} ->
                [k |-> d.k, expr |-> Unfold(t, d.expr, loops)]
          [] d.k = "Loop" ->
                [k |-> d.k, expr |-> Unfold(t, d.expr, <<e>> \o loops)]
          [] d.k = "Break" ->
                [k |-> d.k,
                 from_expr |-> IF \E i \in DOMAIN loops : loops[i] = d.from_expr
                               THEN CHOOSE i \in DOMAIN loops : loops[i] = d.from_expr
                               ELSE 0,
                 with_value |-> Unfold(t, d.with_value, loops)]
          [] d.k = "Call" ->
                [k |-> d.k, func |-> Unfold(t, d.func, loops),
                 args |-> [i \in DOMAIN d.args |->
                              [name |-> t.named_exprs[d.args[i]].name,
                               expr |-> Unfold(t, t.named_exprs[d.args[i]].expr, loops)]]]
          [] d.k \in {"Tuple", "Seq"} ->
                [k |-> d.k, exprs |-> [i \in DOMAIN d.exprs |-> Unfold(t, d.exprs[i], loops)]]
          [] d.k = "If" ->
                [k |-> d.k, cond |-> Unfold(t, d.cond, loops),
                 then |-> Unfold(t, d.then, loops), else |-> Unfold(t, d.else, loops)]
          [] d.k = "Op" ->
                [k |-> d.k, lhs |-> Unfold(t, d.lhs, loops), op |-> d.op,
                 rhs |-> Unfold(t, d.rhs, loops)]
          [] d.k = "Unary" ->
                [k |-> d.k, op |-> d.op, rhs |-> Unfold(t, d.rhs, loops)]
          [] d.k \in {"Give", "Lease", "Shlease", "Reserve"} ->
                [k |-> d.k, place |-> UnfoldPlace(t, d.place)]
          [] d.k = "AssignTemporary" ->
                [k |-> d.k, lv |-> d.lv, expr |-> Unfold(t, d.expr, loops)]
          [] d.k = "AssignFromPlace" ->
                [k |-> d.k, target |-> UnfoldTargetPlace(t, d.target),
                 source |-> UnfoldPlace(t, d.source)]
          [] d.k = "Declare" ->
                [k |-> d.k, vars |-> d.vars, expr |-> Unfold(t, d.expr, loops)]
          [] OTHER -> d

\* the tree of this state is the tree the same body has when validated to be given
SameTreeAsInGive ==
    LET same_tree(given) ==
            ~panicked(given) =>
                Unfold(tables, root_expr, <<>>) = Unfold(given.v.tables, given.r, <<>>)
    IN  same_tree(validate_expr_in_mode(EntryValidator, <<>>, give))

RECURSIVE InheritsModeToPlace(_)
\* the mode the expression is validated in reaches a place expression: through
\* parentheses, the branches of an if, the body of an atomic or of a while
InheritsModeToPlace(p) ==
    CASE data(p).k \in {"Id", "Dot"} -> TRUE
      [] data(p).k \in {"Parenthesized", "Atomic"} -> InheritsModeToPlace(kid(p, 1))
      [] data(p).k = "While" -> InheritsModeToPlace(kid(p, 2))
      [] data(p).k = "If" ->
            \E i \in 2 .. Len(data(p).kids) : InheritsModeToPlace(kid(p, i))
      [] OTHER -> FALSE

(***************************************************************************)
(* C9, as stated.  An expression that is no place expression (no Id, no    *)
(* Dot, parenthesized or not) has structurally the same validated tree in  *)
(* every mode, If, Atomic and While of bare places included.               *)
(***************************************************************************)
C9_NonPlaceIgnoresMode ==
    (pc = "done" /\ ~is_place_expression(<<>>)) => SameTreeAsInGive

(***************************************************************************)
(* C9, amended.  An expression has structurally the same validated tree in *)
(* every mode unless its mode reaches a place expression: it is one, or it *)
(* is an If with such a branch, an Atomic or While with such a body, or    *)
(* such an expression in parentheses.  The body of a Loop, the operands of *)
(* an operator, the condition of an If or While and the arguments of a     *)
(* call do not inherit the mode.                                           *)
(***************************************************************************)
C9_ModeOnlyReachesPlaces ==
    (pc = "done" /\ ~InheritsModeToPlace(<<>>)) => SameTreeAsInGive

\* loop { x } validated to be reserved: the body is given all the same
C9_Witness ==
    /\ pc = "done"
    /\ entry_mode = "Reserve"
    /\ syntax_tree = U1("Loop", Id("x"))
    /\ tables.exprs[root_expr].k = "Loop"
    /\ tables.exprs[tables.exprs[root_expr].expr].k = "Give"

(***************************************************************************)
(* Calls and the names of their arguments                                  *)
(***************************************************************************)
NameRequiredDiagnostics ==
    {i \in DOMAIN diagnostics : diagnostics[i].message = "parameter name required"}

\* the diagnostics on argument i of the call at path p
NameRequiredAt(p, i) ==
    {d \in NameRequiredDiagnostics :
        diagnostics[d].span = keyword_span(kid(p, i + 1), "name")}

\* argument i of the call at path p has no name and comes after a named one
UnnamedAfterNamed(p, i) ==
    /\ data(p).a[i] = ""
    /\ \E j \in 1 .. i - 1 : data(p).a[j] # ""

\* the calls of the source: the paths of the syntax tree that hold a Call
RECURSIVE Paths(_)
Paths(p) == {p} \cup UNION {Paths(kid(p, i)) : i \in DOMAIN data(p).kids}

SyntaxCalls == {p \in Paths(<<>>) : data(p).k = "Call"}

(***************************************************************************)
(* C10.  In the argument list of a call, an argument without a name gets   *)
(* the diagnostic "parameter name required" exactly when an earlier        *)
(* argument of the same call has a name; a call gets as many of these      *)
(* diagnostics as it has unnamed arguments after its first named one, and  *)
(* its Call node is produced all the same, with every argument.            *)
(***************************************************************************)
C10_NameRequiredAfterNamed ==
    pc = "done" =>
        /\ \A p \in SyntaxCalls :
              /\ \A i \in DOMAIN data(p).a :
                    Cardinality(NameRequiredAt(p, i)) =
                        IF UnnamedAfterNamed(p, i) THEN 1 ELSE 0
              /\ \E e \in ExprsOf("Call") :
                    /\ origin_in(e) = [syntax_expr |-> p, synthesized |-> FALSE]
                    /\ Len(tables.exprs[e].args) = Len(data(p).a)
                    /\ \A i \in DOMAIN data(p).a :
                          LET arg == tables.named_exprs[tables.exprs[e].args[i]]
                          IN  /\ arg.name.word =
                                    IF data(p).a[i] = "" THEN None ELSE Some(data(p).a[i])
                              /\ origin_in(arg.expr).syntax_expr = kid(p, i + 1)
        /\ Cardinality(ExprsOf("Call")) = Cardinality(SyntaxCalls)
        /\ NameRequiredDiagnostics =
              UNION {NameRequiredAt(p, i) : p \in SyntaxCalls, i \in 1 .. MaxArgs}

\* g(g(n: 1, 1, 1), n: 1, 1): the inner call is reported twice, the outer
\* one once, and its first argument, unnamed before any name, is not
C10_Witness ==
    /\ pc = "done"
    /\ \E p, q \in SyntaxCalls :
          /\ q = kid(p, 2)
          /\ data(p).a[1] = ""
          /\ NameRequiredAt(p, 1) = {}
          /\ Cardinality(UNION {NameRequiredAt(p, i) : i \in 1 .. MaxArgs}) = 1
          /\ Cardinality(UNION {NameRequiredAt(q, i) : i \in 1 .. MaxArgs}) = 2
    /\ Cardinality(NameRequiredDiagnostics) = 3

(***************************************************************************)
(* C11.  The function and every argument of a validated call f(args) are   *)
(* validated to be reserved, in whatever mode the call itself is           *)
(* validated: a bare place in one of these positions becomes               *)
(* Reserve(place) when it resolves (an Error when it does not), never a    *)
(* Give, Lease, Shlease or Share; each argument keeps its position and its *)
(* name.                                                                   *)
(***************************************************************************)
ReservedAt(e, q) ==
    /\ origin_in(e).syntax_expr = q
    /\ IsBarePlace(q) =>
          IF Resolves(q)
          THEN /\ tables.exprs[e].k = "Reserve"
               /\ DOMAIN tables.exprs[e] = {"k", "place"}
               /\ Denotes(tables.exprs[e].place, q)
          ELSE tables.exprs[e] = [k |-> "Error"]

C11_CallPositionsAreReserved ==
    pc = "done" =>
        \A e \in ExprsOf("Call") :
            LET d == tables.exprs[e]
                p == origin_in(e).syntax_expr
            IN  /\ data(p).k = "Call"
                /\ ReservedAt(d.func, kid(p, 1))
                /\ Len(d.args) = Len(data(p).a)
                /\ \A i \in DOMAIN d.args :
                      /\ origins.named_exprs[d.args[i]] = [call |-> p, index |-> i]
                      /\ tables.named_exprs[d.args[i]].name =
                            named_expr_data([call |-> p, index |-> i]).name
                      /\ ReservedAt(tables.named_exprs[d.args[i]].expr, kid(p, i + 1))

\* g(x.f) validated to be leased: the argument is reserved all the same
C11_Witness ==
    /\ pc = "done"
    /\ entry_mode = "Leased"
    /\ syntax_tree = N("Call", <<Id("g"), N("Dot", <<Id("x")>>, <<"f">>)>>, <<"">>)
    /\ tables.exprs[root_expr].k = "Call"
    /\ tables.exprs[tables.exprs[root_expr].func].k = "Reserve"
    /\ tables.exprs[tables.named_exprs[tables.exprs[root_expr].args[1]].expr].k = "Reserve"
    /\ tables.places[tables.exprs[tables.named_exprs[tables.exprs[root_expr].args[1]].expr].place].k
          = "Dot"

(***************************************************************************)
(* Compound assignments                                                    *)
(***************************************************************************)
ExprsAt(k, origin) == {e \in ExprsOf(k) : origin_in(e) = origin}

SyntaxOpEqs == {p \in Paths(<<>>) : data(p).k = "OpEq"}

\* the identifier q names a local variable at the entry of the function
IsLocal(q) ==
    /\ data(q).k = "Id"
    /\ scope_lookup(EntryValidator.scope, data(q).a[1]) # None
    /\ scope_lookup(EntryValidator.scope, data(q).a[1])[1].d = "LocalVariable"

LocalOf(q) == scope_lookup(EntryValidator.scope, data(q).a[1])[1].id

NonCompound(op) ==
    CASE op = "PlusEqual" -> "Plus"
      [] op = "MinusEqual" -> "Minus"
      [] op = "TimesEqual" -> "Times"
      [] op = "DividedByEqual" -> "DividedBy"

\* the validated expression e is AssignTemporary(t, Op(Give(place), op, rhs'))
\* of the compound assignment at p, with t a temporary made for it
AssignsOpToTemporary(e, p, t) ==
    LET d == tables.exprs[e]
        o == tables.exprs[d.expr]
    IN  /\ d.k = "AssignTemporary"
        /\ d.lv = t
        /\ t \in Temporaries
        /\ origins.local_variables[t] = [lvo |-> "Temporary", syntax_expr |-> p]
        /\ AssignTemporaries(t) = {e}
        /\ origin_in(e) = synthesized_origin(p)
        /\ o.k = "Op"
        /\ o.op = NonCompound(data(p).a[1])
        /\ origin_in(d.expr) = synthesized_origin(p)
        /\ tables.exprs[o.lhs].k = "Give"
        /\ origin_in(o.lhs) = synthesized_origin(kid(p, 1))
        /\ origin_in(o.rhs).syntax_expr = kid(p, 2)
        /\ o.lhs < o.rhs

(***************************************************************************)
(* C12.  A compound assignment a op= b, with a a local variable, validates *)
(* to a Seq of two expressions: AssignTemporary(t, Op(Give(a), op, b'))    *)
(* and AssignFromPlace(a, t), where op is the operator without the =, t is *)
(* a temporary made for this assignment, b' is b validated to be given,    *)
(* and the target place is the local variable a, the same the Give reads.  *)
(***************************************************************************)
C12_OpEqOfLocalIsTwoStatements ==
    pc = "done" =>
        \A p \in SyntaxOpEqs :
            IsLocal(kid(p, 1)) =>
                /\ Cardinality(ExprsAt("Seq", synthesized_origin(p))) = 1
                /\ \A s \in ExprsAt("Seq", synthesized_origin(p)) :
                      LET stmts == tables.exprs[s].exprs
                          first == tables.exprs[stmts[1]]
                          second == tables.exprs[stmts[2]]
                          read == tables.exprs[tables.exprs[first.expr].lhs]
                      IN  /\ Len(stmts) = 2
                          /\ AssignsOpToTemporary(stmts[1], p, first.lv)
                          /\ tables.places[read.place] =
                                [k |-> "LocalVariable", lv |-> LocalOf(kid(p, 1))]
                          /\ second.k = "AssignFromPlace"
                          /\ origin_in(stmts[2]) = real(p)
                          /\ tables.target_places[second.target] =
                                [k |-> "LocalVariable", lv |-> LocalOf(kid(p, 1))]
                          /\ origins.target_places[second.target] = real(kid(p, 1))
                          /\ tables.places[second.source] =
                                [k |-> "LocalVariable", lv |-> first.lv]
                          /\ tables.local_variables[LocalOf(kid(p, 1))].name
                                = Some(data(kid(p, 1)).a[1])

\* fn f(x) { x -= 1 }: the root holds AssignTemporary(t, Op(Give(x), Minus, 1))
\* and AssignFromPlace(x, t)
C12_Witness ==
    /\ pc = "done"
    /\ syntax_tree = N("OpEq", <<Id("x"), Int1>>, <<"MinusEqual">>)
    /\ \E s \in ExprsOf("Seq") :
          /\ Len(tables.exprs[s].exprs) = 2
          /\ tables.exprs[tables.exprs[s].exprs[1]].k = "AssignTemporary"
          /\ tables.exprs[tables.exprs[tables.exprs[s].exprs[1]].expr].op = "Minus"
          /\ tables.exprs[tables.exprs[s].exprs[2]].k = "AssignFromPlace"
          /\ s \in Reach(root_expr)

(***************************************************************************)
(* Assignments to a field: owner.field                                     *)
(***************************************************************************)
\* the expressions that have e as an operand
Parents(e) == {x \in ExprIds : e \in Range(children(x))}

\* the validated expression e is what the owner at path q becomes in the
\* mode of the place expression k (Lease, Reserve): k(q) for a bare place
\* that resolves, an Error for one that does not
OwnerIn(k, e, q) ==
    IsBarePlace(q) =>
        IF Resolves(q)
        THEN /\ tables.exprs[e].k = k
             /\ Denotes(tables.exprs[e].place, q)
        ELSE tables.exprs[e] = [k |-> "Error"]

\* the validated expression e is AssignTemporary(u, owner') for the owner at
\* path q, the only evaluation of owner'
AssignsOwnerToTemporary(e, k, q) ==
    LET d == tables.exprs[e]
    IN  /\ d.k = "AssignTemporary"
        /\ d.lv \in Temporaries
        /\ AssignTemporaries(d.lv) = {e}
        /\ OwnerIn(k, d.expr, q)
        /\ Parents(d.expr) = {e}

(***************************************************************************)
(* C13.  owner.field op= rhs validates to a Seq of three expressions, in   *)
(* this order: AssignTemporary(u, owner') with owner' the owner validated  *)
(* once, to be leased (Lease(owner) when the owner is a place);            *)
(* AssignTemporary(t, Op(Give(u.field), op, rhs')); AssignFromPlace(       *)
(* u.field, t).  The place the Give reads and the target place written     *)
(* have the same owner place, the temporary u.                             *)
(***************************************************************************)
C13_OpEqOfFieldLeasesOwnerOnce ==
    pc = "done" =>
        \A p \in SyntaxOpEqs :
            data(kid(p, 1)).k = "Dot" =>
                /\ Cardinality(ExprsAt("Seq", synthesized_origin(p))) = 1
                /\ \A s \in ExprsAt("Seq", synthesized_origin(p)) :
                      LET stmts == tables.exprs[s].exprs
                          u == tables.exprs[stmts[1]].lv
                          second == tables.exprs[stmts[2]]
                          third == tables.exprs[stmts[3]]
                          read == tables.places[
                                      tables.exprs[tables.exprs[second.expr].lhs].place]
                          written == tables.target_places[third.target]
                      IN  /\ Len(stmts) = 3
                          /\ AssignsOwnerToTemporary(stmts[1], "Lease", kid(kid(p, 1), 1))
                          /\ AssignsOpToTemporary(stmts[2], p, second.lv)
                          /\ u # second.lv
                          /\ read.k = "Dot"
                          /\ read.field = data(kid(p, 1)).a[1]
                          /\ tables.places[read.owner] = [k |-> "LocalVariable", lv |-> u]
                          /\ third.k = "AssignFromPlace"
                          /\ origin_in(stmts[3]) = real(p)
                          /\ written = [k |-> "Dot", owner |-> read.owner,
                                        field |-> data(kid(p, 1)).a[1]]
                          /\ origins.target_places[third.target] = real(kid(p, 1))
                          /\ tables.places[third.source] =
                                [k |-> "LocalVariable", lv |-> second.lv]

\* x.f *= 1: Lease(x) into u, Op(Give(u.f), Times, 1) into t, u.f assigned from t
C13_Witness ==
    /\ pc = "done"
    /\ syntax_tree = N("OpEq", <<N("Dot", <<Id("x")>>, <<"f">>), Int1>>, <<"TimesEqual">>)
    /\ tables.exprs[root_expr].k = "Seq"
    /\ Len(tables.exprs[root_expr].exprs) = 3
    /\ tables.exprs[tables.exprs[tables.exprs[root_expr].exprs[1]].expr].k = "Lease"
    /\ tables.exprs[tables.exprs[root_expr].exprs[3]].k = "AssignFromPlace"
    /\ tables.target_places[tables.exprs[tables.exprs[root_expr].exprs[3]].target].k = "Dot"

(***************************************************************************)
(* Variable declarations: var x = init                                     *)
(***************************************************************************)
SyntaxVars == {p \in Paths(<<>>) : data(p).k = "Var"}

RECURSIVE PlaceRoot(_), DenotesFrom(_, _, _)
\* what the place expression q starts at: the innermost owner, parentheses
\* taken away
PlaceRoot(q) ==
    IF data(q).k \in {"Dot", "Parenthesized"} THEN PlaceRoot(kid(q, 1)) ELSE q

\* the validated place is the place the place expression q names, a root
\* that is no identifier being held by the temporary tmp
DenotesFrom(place, q, tmp) ==
    LET d == tables.places[place]
    IN  CASE data(q).k = "Parenthesized" -> DenotesFrom(place, kid(q, 1), tmp)
          [] data(q).k = "Dot" ->
                /\ origins.places[place] = real(q)
                /\ d.k = "Dot"
                /\ d.field = data(q).a[1]
                /\ DenotesFrom(d.owner, kid(q, 1), tmp)
          [] data(q).k = "Id" -> Denotes(place, q)
          [] OTHER -> d = [k |-> "LocalVariable", lv |-> tmp]

\* the local variable the declaration at p introduces
DeclaredAt(p) ==
    {lv \in LocalVariables : origins.local_variables[lv] = [lvo |-> "LocalVariable", decl |-> p]}

\* the validated expression a is AssignFromPlace(lv, source) of the
\* declaration at p, lv being the variable it declares
AssignsDeclared(a, p) ==
    LET d == tables.exprs[a]
    IN  /\ d.k = "AssignFromPlace"
        /\ origin_in(a) = real(p)
        /\ origins.target_places[d.target] = synthesized_origin(p)
        /\ tables.target_places[d.target].k = "LocalVariable"
        /\ DeclaredAt(p) = {tables.target_places[d.target].lv}

\* the declaration at p is validated to AssignFromPlace(lv, place) alone
AssignedDirectly(p) ==
    /\ ExprsAt("Seq", synthesized_origin(p)) = {}
    /\ Cardinality(ExprsAt("AssignFromPlace", real(p))) = 1
    /\ \A a \in ExprsAt("AssignFromPlace", real(p)) :
          /\ AssignsDeclared(a, p)
          /\ DenotesFrom(tables.exprs[a].source, kid(p, 1), 0)

\* the declaration at p is validated to
\* Seq[AssignTemporary(tmp, root'), AssignFromPlace(lv, place from tmp)]
\* where root is the expression at path r
AssignedThroughTemporary(p, r) ==
    /\ Cardinality(ExprsAt("Seq", synthesized_origin(p))) = 1
    /\ \A s \in ExprsAt("Seq", synthesized_origin(p)) :
          LET stmts == tables.exprs[s].exprs
              first == tables.exprs[stmts[1]]
          IN  /\ Len(stmts) = 2
              /\ first.k = "AssignTemporary"
              /\ first.lv \in Temporaries
              /\ AssignTemporaries(first.lv) = {stmts[1]}
              /\ IsPrefix(r, origin_in(first.expr).syntax_expr)
              /\ Parents(first.expr) = {stmts[1]}
              /\ AssignsDeclared(stmts[2], p)
              /\ DenotesFrom(tables.exprs[stmts[2]].source, kid(p, 1), first.lv)

\* the declaration at p introduces one local variable, with the name, the
\* specifier and the atomic of the declaration
Declares(p) ==
    /\ Cardinality(DeclaredAt(p)) = 1
    /\ \A lv \in DeclaredAt(p) :
          tables.local_variables[lv] =
              [name |-> Some(data(p).a[1]), specifier |-> Some(data(p).a[2]),
               atomic |-> data(p).a[3]]

(***************************************************************************)
(* C14, as stated.  var x = init introduces a named local variable lv.     *)
(* When init is no place expression the declaration validates to           *)
(* Seq[AssignTemporary(tmp, init'), AssignFromPlace(lv, tmp)]; when init   *)
(* is a place expression (Id or Dot, parenthesized or not) that resolves,  *)
(* no temporary is made and the place is assigned directly.                *)
(***************************************************************************)
C14_VarOfPlaceMakesNoTemporary ==
    pc = "done" =>
        \A p \in SyntaxVars :
            /\ Declares(p)
            /\ IF is_place_expression(kid(p, 1))
               THEN (data(PlaceRoot(kid(p, 1))).k = "Id" => Resolves(PlaceRoot(kid(p, 1))))
                        => AssignedDirectly(p)
               ELSE AssignedThroughTemporary(p, kid(p, 1))

(***************************************************************************)
(* C14, amended.  var x = init introduces a named local variable lv.  When *)
(* init is no place expression the declaration validates to                *)
(* Seq[AssignTemporary(tmp, init'), AssignFromPlace(lv, tmp)].  When init  *)
(* is a place expression, it is a path of fields (parenthesized or not)    *)
(* from a root: if the root is an identifier that resolves, no temporary   *)
(* is made and the declaration validates to AssignFromPlace(lv, place); if *)
(* the root is an identifier that does not resolve, or an Error, the       *)
(* declaration validates to an Error; any other root is stored, validated  *)
(* to be given, in a temporary tmp and the declaration validates to        *)
(* Seq[AssignTemporary(tmp, root'), AssignFromPlace(lv, tmp.fields)].      *)
(***************************************************************************)
C14_VarAssignsFromPlaceOrTemporary ==
    pc = "done" =>
        \A p \in SyntaxVars :
            LET init == kid(p, 1)
                root == PlaceRoot(init)
            IN  /\ Declares(p)
                /\ CASE ~is_place_expression(init) -> AssignedThroughTemporary(p, init)
                     [] is_place_expression(init) /\ data(root).k = "Id" ->
                           IF Resolves(root)
                           THEN AssignedDirectly(p)
                           ELSE /\ Cardinality(ExprsAt("Error", real(p))) = 1
                                /\ ExprsAt("AssignFromPlace", real(p)) = {}
                     [] is_place_expression(init) /\ data(root).k = "Error" ->
                           /\ Cardinality(ExprsAt("Error", real(p))) = 1
                           /\ ExprsAt("AssignFromPlace", real(p)) = {}
                     [] OTHER -> AssignedThroughTemporary(p, root)

\* var y = 1.f: the owner 1 is stored in a temporary, y is assigned from tmp.f
C14_Witness ==
    /\ pc = "done"
    /\ syntax_tree = VarDecl("y", N("Dot", <<Int1>>, <<"f">>))
    /\ tables.exprs[root_expr].k = "Seq"
    /\ tables.exprs[tables.exprs[root_expr].exprs[1]].k = "AssignTemporary"
    /\ tables.exprs[tables.exprs[root_expr].exprs[2]].k = "AssignFromPlace"
    /\ tables.places[tables.exprs[tables.exprs[root_expr].exprs[2]].source].k = "Dot"

(***************************************************************************)
(* While loops                                                             *)
(***************************************************************************)
SyntaxWhiles == {p \in Paths(<<>>) : data(p).k = "While"}

\* the validated expressions made of the syntax at path q or inside it
ExprsUnder(q) == {e \in ExprIds : IsPrefix(q, origin_in(e).syntax_expr)}

(***************************************************************************)
(* C15.  while cond { body } validates to                                  *)
(* Loop(Seq([body', If(cond', Tuple([]), Break{from_expr: L, with_value:   *)
(* Tuple([])})])) with L the key of that very Loop: in the Seq the body    *)
(* comes before the test of the condition, the then-branch is the empty    *)
(* tuple and the else-branch breaks out of L with the empty tuple.  body'  *)
(* is made of the body alone, cond' of the condition alone.                *)
(***************************************************************************)
C15_WhileIsLoopBodyThenTest ==
    pc = "done" =>
        \A p \in SyntaxWhiles :
            /\ Cardinality(ExprsAt("Loop", real(p))) = 1
            /\ \A L \in ExprsAt("Loop", real(p)) :
                  LET s == tables.exprs[L].expr
                      stmts == tables.exprs[s].exprs
                      test == tables.exprs[stmts[2]]
                      break == tables.exprs[test.else]
                  IN  /\ tables.exprs[s].k = "Seq"
                      /\ origin_in(s) = real(p)
                      /\ Len(stmts) = 2
                      /\ Reach(stmts[1]) \subseteq ExprsUnder(kid(p, 2))
                      /\ IsPrefix(kid(p, 2), origin_in(stmts[1]).syntax_expr)
                      /\ test.k = "If"
                      /\ origin_in(stmts[2]) = real(p)
                      /\ origin_in(test.cond).syntax_expr = kid(p, 1)
                      /\ Reach(test.cond) \subseteq ExprsUnder(kid(p, 1))
                      /\ tables.exprs[test.then] = [k |-> "Tuple", exprs |-> <<>>]
                      /\ origin_in(test.then) = real(p)
                      /\ break = [k |-> "Break", from_expr |-> L, with_value |-> test.then]
                      /\ origin_in(test.else) = real(p)

\* while x { while x { 1 } }: each while is a Loop of its own
C15_Witness ==
    /\ pc = "done"
    /\ syntax_tree = N("While", <<Id("x"), N("While", <<Id("x"), Int1>>, <<>>)>>, <<>>)
    /\ Cardinality(ExprsOf("Loop")) = 2
    /\ tables.exprs[root_expr].k = "Loop"
    /\ tables.exprs[tables.exprs[tables.exprs[tables.exprs[root_expr].expr].exprs[1]].expr].k
          = "Seq"

(***************************************************************************)
(* Scopes of the local variables                                           *)
(***************************************************************************)
DeclaredBy(D) == Range(tables.exprs[D].vars)

\* the local variables the expression e itself names: through a place, or
\* as the temporary it assigns
names(e) ==
    IF tables.exprs[e].k = "AssignTemporary" THEN {tables.exprs[e].lv} ELSE uses(e)

\* the local variables of the scope of the function: the parameters and
\* what the body introduces outside every subscope
FunctionLevel == Range(scope_take_inserted(scope))

\* the Declare D is around the expression e
Encloses(D, e) == e \in Reach(tables.exprs[D].expr)

\* in the tree of the root a variable of a Declare is named only inside that
\* Declare
DeclaredVariablesStayInside ==
    \A D \in ExprsOf("Declare") :
        \A e \in Reach(root_expr) : names(e) \cap DeclaredBy(D) # {} => Encloses(D, e)

(***************************************************************************)
(* C16, as stated.  Each local variable that an AssignFromPlace(t, s) of   *)
(* the validated tree names in t or s is listed in the vars of a Declare   *)
(* around the assignment, and a variable declared in a subscope is named   *)
(* by no place outside the Declare of that subscope.                       *)
(***************************************************************************)
C16_AssignedVariablesAreDeclared ==
    pc = "done" =>
        /\ \A a \in ExprsOf("AssignFromPlace") \cap Reach(root_expr) :
              \A lv \in uses(a) :
                  \E D \in ExprsOf("Declare") : lv \in DeclaredBy(D) /\ Encloses(D, a)
        /\ DeclaredVariablesStayInside

(***************************************************************************)
(* C16, amended.  Each local variable that an expression of the validated  *)
(* tree names (in the places of an AssignFromPlace, Give, Lease, Shlease    *)
(* or Reserve, or as the temporary of an AssignTemporary) is either a      *)
(* variable of the scope of the function (a parameter, or a variable or    *)
(* temporary introduced outside every subscope), which no Declare lists,   *)
(* or is listed in the vars of exactly one Declare, and that Declare is    *)
(* around the expression.  A variable of a subscope is named nowhere       *)
(* outside the Declare made when the subscope exits.                       *)
(***************************************************************************)
C16_VariablesAreOfFunctionOrDeclared ==
    pc = "done" =>
        /\ \A lv \in LocalVariables :
              IF lv \in FunctionLevel
              THEN \A D \in ExprsOf("Declare") : lv \notin DeclaredBy(D)
              ELSE Cardinality({D \in ExprsOf("Declare") : lv \in DeclaredBy(D)}) = 1
        /\ \A e \in Reach(root_expr) :
              \A lv \in names(e) \ FunctionLevel :
                  \E D \in ExprsOf("Declare") : lv \in DeclaredBy(D) /\ Encloses(D, e)
        /\ DeclaredVariablesStayInside

\* atomic { var y = 1 }; y = x: the y of the atomic body and its temporary
\* are declared around the body, the y after it is not found
C16_Witness ==
    /\ pc = "done"
    /\ syntax_tree = N("Seq", <<U1("Atomic", VarDecl("y", Int1)),
                                N("Assign", <<Id("y"), Id("x")>>, <<>>)>>, <<>>)
    /\ \E D \in ExprsOf("Declare") :
          /\ Cardinality(DeclaredBy(D)) = 2
          /\ \E a \in ExprsOf("AssignFromPlace") : Encloses(D, a) /\ uses(a) \subseteq DeclaredBy(D)
    /\ diagnostics # <<>>

(***************************************************************************)
(* Subscopes: the branches of an if, the body of an atomic, a loop, a      *)
(* while                                                                   *)
(***************************************************************************)
\* the subscopes of the syntax at path p, each with the validated expression
\* that came of it: <<path of the body, validated body>>
SubscopesOf(p) ==
    CASE data(p).k = "If" ->
            UNION {{<<kid(p, 2), tables.exprs[e].then>>}
                      \cup IF Len(data(p).kids) = 3
                           THEN {<<kid(p, 3), tables.exprs[e].else>>}
                           ELSE {} : e \in ExprsAt("If", real(p))}
      [] data(p).k = "Atomic" ->
            {<<kid(p, 1), tables.exprs[e].expr>> : e \in ExprsAt("Atomic", real(p))}
      [] data(p).k = "Loop" ->
            {<<kid(p, 1), tables.exprs[e].expr>> : e \in ExprsAt("Loop", real(p))}
      [] data(p).k = "While" ->
            {<<kid(p, 2), tables.exprs[tables.exprs[e].expr].exprs[1]>> :
                e \in ExprsAt("Loop", real(p))}
      [] OTHER -> {}

Subscopes == UNION {SubscopesOf(p) : p \in Paths(<<>>)}

\* the paths of the bodies that are validated in a subscope
SubscopePaths ==
    {q \in Paths(<<>>) :
        /\ q # <<>>
        /\ LET p == SubSeq(q, 1, Len(q) - 1)
               i == q[Len(q)]
           IN  \/ data(p).k = "If" /\ i \in {2, 3}
               \/ data(p).k \in {"Atomic", "Loop"}
               \/ data(p).k = "While" /\ i = 2}

\* where in the syntax a local variable of the body is introduced
IntroducedAt(lv) ==
    IF origins.local_variables[lv].lvo = "Temporary"
    THEN origins.local_variables[lv].syntax_expr
    ELSE origins.local_variables[lv].decl

\* the local variables introduced in the subscope of the body at q, and in
\* no subscope inside it
InsertedIn(q) ==
    {lv \in LocalVariables :
        /\ origins.local_variables[lv].lvo # "Parameter"
        /\ IsPrefix(q, IntroducedAt(lv))
        /\ \A r \in SubscopePaths :
              (IsPrefix(q, r) /\ IsPrefix(r, IntroducedAt(lv))) => r = q}

(***************************************************************************)
(* C17.  The validated body of a subscope (if-branch, atomic body, loop    *)
(* body, while body) is a Declare(vars, inner) if and only if the subscope *)
(* has introduced a local variable, named or temporary; vars lists, each   *)
(* once, exactly the variables introduced at that level (not those of a    *)
(* subscope inside); the origin of the Declare is the origin of inner made *)
(* synthesized; every Declare of the tables is the body of a subscope, and *)
(* none has an empty vars.                                                 *)
(***************************************************************************)
C17_DeclareIffSubscopeIntroduces ==
    pc = "done" =>
        /\ \A sub \in Subscopes :
              LET q == sub[1]
                  b == tables.exprs[sub[2]]
              IN  IF InsertedIn(q) = {}
                  THEN b.k # "Declare"
                  ELSE /\ b.k = "Declare"
                       /\ Range(b.vars) = InsertedIn(q)
                       /\ Len(b.vars) = Cardinality(InsertedIn(q))
                       /\ origin_in(sub[2]) = force_synthesized(origin_in(b.expr))
                       /\ tables.exprs[b.expr].k # "Declare"
        /\ \A D \in ExprsOf("Declare") :
              /\ tables.exprs[D].vars # <<>>
              /\ \E sub \in Subscopes : sub[2] = D
        /\ \A q \in SubscopePaths : Cardinality({sub \in Subscopes : sub[1] = q}) = 1

\* if x { var y = 1 } else { var z = y }: the then-branch declares y and a
\* temporary, the else-branch z alone
C17_Witness ==
    /\ pc = "done"
    /\ syntax_tree = N("If", <<Id("x"), VarDecl("y", Int1), VarDecl("z", Id("y"))>>, <<>>)
    /\ \E e \in ExprsOf("If") :
          /\ tables.exprs[tables.exprs[e].then].k = "Declare"
          /\ Len(tables.exprs[tables.exprs[e].then].vars) = 2
          /\ tables.exprs[tables.exprs[e].else].k = "Declare"
          /\ Len(tables.exprs[tables.exprs[e].else].vars) = 1

(***************************************************************************)
(* Assignments: lhs = rhs                                                  *)
(***************************************************************************)
SyntaxAssigns == {p \in Paths(<<>>) : data(p).k = "Assign"}

RECURSIVE Unparenthesized(_)
Unparenthesized(q) ==
    IF data(q).k = "Parenthesized" THEN Unparenthesized(kid(q, 1)) ELSE q

\* the lhs at path q is no identifier and no field, in parentheses or not
IsArbitraryTarget(q) == data(Unparenthesized(q)).k \notin {"Id", "Dot"}

DiagnosticsAt(message, q) ==
    {i \in DOMAIN diagnostics :
        diagnostics[i].message = message /\ diagnostics[i].span = span(q)}

\* the assignment at p is refused because of its lhs
TargetRefused(p) ==
    Cardinality(DiagnosticsAt(
        "you can only assign to local variables and fields, not arbitrary expressions",
        Unparenthesized(kid(p, 1)))) = 1

(***************************************************************************)
(* C18.  When the lhs of an assignment lhs = rhs is no local variable and  *)
(* no field (in parentheses or not), the diagnostic "you can only assign   *)
(* to local variables and fields, not arbitrary expressions" is emitted    *)
(* and the rhs is validated all the same: a validated expression is made   *)
(* of it, and a name of the rhs that is not found is reported.             *)
(***************************************************************************)
C18_RhsValidatedWhenTargetRefused ==
    pc = "done" =>
        \A p \in SyntaxAssigns :
            IsArbitraryTarget(kid(p, 1)) =>
                /\ TargetRefused(p)
                /\ ExprsUnder(kid(p, 2)) # {}
                /\ (IsBarePlace(kid(p, 2)) /\ ~Resolves(PlaceRoot(kid(p, 2)))) =>
                      DiagnosticsAt("can't find anything named", PlaceRoot(kid(p, 2))) # {}

\* the assignments, plain and compound, that write a field
SyntaxFieldAssigns ==
    {p \in Paths(<<>>) : data(p).k \in {"Assign", "OpEq"} /\ data(kid(p, 1)).k = "Dot"}

\* the assignment at p, which writes owner.field, starts by storing its
\* owner, validated to the place expression k, in a temporary u and writes
\* the target place Dot(u, field)
OwnerStoredFirst(p, k) ==
    LET lhs == kid(p, 1)
        targets == {tp \in DOMAIN tables.target_places : origins.target_places[tp] = real(lhs)}
    IN  /\ Cardinality(targets) = 1
        /\ \A tp \in targets :
              LET target == tables.target_places[tp]
                  u == tables.places[target.owner].lv
              IN  /\ target.k = "Dot"
                  /\ target.field = data(lhs).a[1]
                  /\ tables.places[target.owner].k = "LocalVariable"
                  /\ u \in Temporaries
                  /\ Cardinality(AssignTemporaries(u)) = 1
                  /\ \A at \in AssignTemporaries(u) :
                        /\ AssignsOwnerToTemporary(at, k, kid(lhs, 1))
                        /\ \E s \in ExprsOf("Seq") :
                              /\ origin_in(s).syntax_expr = p
                              /\ tables.exprs[s].exprs[1] = at
                              /\ \E a \in Reach(s) :
                                    /\ tables.exprs[a].k = "AssignFromPlace"
                                    /\ origin_in(a) = real(p)
                                    /\ tables.exprs[a].target = tp

ErrorMessages ==
    {"can't find anything named",
     "you can only assign to local variables or fields",
     "you can only assign to local variables and fields, not arbitrary expressions",
     "await is not permitted outside of async functions",
     "await is not permitted inside atomic sections",
     "parameter name required",
     "is not a valid integer", "is not a valid integer suffxi", "is not a valid float",
     "return requires an expression",
     "cannot return a value in this function"}

\* the syntax expression at q, or an expression that holds it, is validated
\* to an Error
ReplacedByError(q) ==
    \E e \in ExprsOf("Error") : IsPrefix(origin_in(e).syntax_expr, q)

\* every diagnostic of one of the messages ms is reported on an expression
\* that is replaced by an Error
ErrorsReplaced(ms) ==
    \A i \in DOMAIN diagnostics :
        diagnostics[i].message \in ms => ReplacedByError(diagnostics[i].span.of)

(***************************************************************************)
(* C20.  Every recoverable error reports a diagnostic and is replaced in   *)
(* the validated IR by an Error: for each kind of error (a name that is    *)
(* not found, an assignment to a function, class or intrinsic, a lhs that  *)
(* is no place, an await outside async or inside atomic, an argument       *)
(* without name after a named one, a literal that does not parse, a return *)
(* without value in a function that returns one, a return with a value in  *)
(* a function that returns none), the expression on which the diagnostic   *)
(* is reported (or, for a part of a place or of a target, the expression   *)
(* that holds it) validates to an Error.                                   *)
(***************************************************************************)
C20_ErrorsAreReplacedByError ==
    pc = "done" => ErrorsReplaced(ErrorMessages)

(***************************************************************************)
(* Independent errors                                                      *)
(***************************************************************************)
\* the names some var of the program declares
DeclaredNames == {data(p).a[1] : p \in {q \in Paths(<<>>) : data(q).k = "Var"}}

\* the identifiers of the program that name nothing: no parameter, no
\* function, and no variable a var declares
UndefinedIds ==
    {q \in Paths(<<>>) :
        /\ data(q).k = "Id"
        /\ ~Resolves(q)
        /\ data(q).a[1] \notin DeclaredNames}

(***************************************************************************)
(* C21.  Validation never short-circuits: every erroneous subexpression    *)
(* produces its diagnostic in one pass, whatever the errors of the         *)
(* expressions around it.  Here: every identifier that names nothing is    *)
(* reported ("can't find anything named") where it stands, also on the     *)
(* side of an assignment whose other side has reported an error.           *)
(***************************************************************************)
C21_EveryUndefinedNameIsReported ==
    pc = "done" =>
        \A q \in UndefinedIds : DiagnosticsAt("can't find anything named", q) # {}

(***************************************************************************)
(* return                                                                  *)
(***************************************************************************)
SyntaxReturns == {p \in Paths(<<>>) : data(p).k = "Return"}

\* the validated expression e is what the syntax expression at q becomes in
\* give mode: Give(q) for a bare place that resolves, an Error for one that
\* does not, and an expression made of q otherwise
GivenAt(e, q) ==
    /\ origin_in(e).syntax_expr = q
    /\ IsBarePlace(q) =>
          IF Resolves(q)
          THEN /\ tables.exprs[e].k = "Give"
               /\ Denotes(tables.exprs[e].place, q)
          ELSE tables.exprs[e] = [k |-> "Error"]

\* the number of diagnostics of this message, wherever they are reported
Reported(message) ==
    Cardinality({i \in DOMAIN diagnostics : diagnostics[i].message = message})

\* the Return made of the return at p wraps the empty tuple of p when the
\* return has no value, the value validated in give mode otherwise
ReturnWraps(r, p) ==
    LET validated_expr == tables.exprs[r].expr
    IN  IF data(p).kids = <<>>
        THEN /\ tables.exprs[validated_expr] = [k |-> "Tuple", exprs |-> <<>>]
             /\ origin_in(validated_expr).syntax_expr = p
        ELSE GivenAt(validated_expr, kid(p, 1))

(***************************************************************************)
(* C22.  Validating return: "return requires an expression" is emitted     *)
(* exactly when the function returns a value and the return has no         *)
(* expression; "cannot return a value in this function" is emitted exactly *)
(* when the function returns unit and the return has an expression; in all *)
(* four combinations one Return is produced, which wraps the empty tuple   *)
(* when no value is given and the expression validated in give mode        *)
(* otherwise.                                                              *)
(***************************************************************************)
C22_ReturnIsCheckedAndProduced ==
    pc = "done" =>
        /\ \A p \in SyntaxReturns :
              /\ Cardinality(ExprsAt("Return", real(p))) = 1
              /\ \A r \in ExprsAt("Return", real(p)) : ReturnWraps(r, p)
              /\ Cardinality(DiagnosticsAt("return requires an expression", p)) =
                    IF code.return_type = "Value" /\ data(p).kids = <<>> THEN 1 ELSE 0
              /\ data(p).kids # <<>> =>
                    Cardinality(DiagnosticsAt("cannot return a value in this function",
                                              kid(p, 1))) =
                        IF code.return_type = "Unit" THEN 1 ELSE 0
        /\ Reported("return requires an expression") =
              Cardinality({p \in SyntaxReturns :
                              code.return_type = "Value" /\ data(p).kids = <<>>})
        /\ Reported("cannot return a value in this function") =
              Cardinality({p \in SyntaxReturns :
                              code.return_type = "Unit" /\ data(p).kids # <<>>})

\* if x { return 1 } else { return } in a function that returns a value:
\* one diagnostic, on the return without value, and two Returns
C22_Witness ==
    /\ pc = "done"
    /\ code.return_type = "Value"
    /\ syntax_tree = N("If", <<Id("x"), U1("Return", Int1), Return0>>, <<>>)
    /\ Reported("return requires an expression") = 1
    /\ Reported("cannot return a value in this function") = 0
    /\ Cardinality(ExprsOf("Return")) = 2

(***************************************************************************)
(* Integer literals                                                        *)
(***************************************************************************)
SyntaxIntegerLiterals == {p \in Paths(<<>>) : data(p).k = "IntegerLiteral"}

\* the digits of the word of the literal at p, its underscores removed
DigitsOf(p) ==
    LET word == Tail(data(p).a)
    IN  SelectSeq(word, LAMBDA c : c # "_")

\* the digits of a value: ds without its leading zeros
Significant(ds) ==
    LET nonzero == {i \in DOMAIN ds : ds[i] # "0"}
    IN  IF nonzero = {} THEN <<"0">>
        ELSE SubSeq(ds, CHOOSE i \in nonzero : \A j \in nonzero : i <= j, Len(ds))

\* the number a few digits write
RECURSIVE Number(_)
Number(ds) ==
    IF ds = <<>> THEN 0
    ELSE 10 * Number(SubSeq(ds, 1, Len(ds) - 1)) + DigitValue(ds[Len(ds)])

\* a value of at most 21 digits as three limbs of seven digits, the most
\* significant first
Limbs(ds) ==
    LET padded == [i \in 1 .. 21 - Len(ds) |-> "0"] \o ds
    IN  <<Number(SubSeq(padded, 1, 7)), Number(SubSeq(padded, 8, 14)),
          Number(SubSeq(padded, 15, 21))>>

\* 2^64 - 1 = 18446744073709551615 and 2^63 - 1 = 9223372036854775807
LimbsOfU64Max == <<184467, 4407370, 9551615>>

LimbsOfI64Max == <<92233, 7203685, 4775807>>

\* the value the digits ds write is at most the value of the limbs max
AtMost(ds, max) ==
    LET v == Significant(ds)
        l == Limbs(v)
    IN  /\ Len(v) <= 21
        /\ \/ l[1] < max[1]
           \/ l[1] = max[1] /\ l[2] < max[2]
           \/ l[1] = max[1] /\ l[2] = max[2] /\ l[3] <= max[3]

\* the diagnostics reported on the expression at q
DiagnosticsOn(q) == {i \in DOMAIN diagnostics : diagnostics[i].span = span(q)}

\* the validated expressions made of the syntax expression at q itself
MadeOf(q) == {e \in ExprIds : origin_in(e) = real(q)}

\* what the literal at p is to validate to, <<>> when it is to be refused
Expected(p) ==
    LET suffix == Head(data(p).a)
        v == Significant(DigitsOf(p))
    IN  CASE suffix = "" /\ AtMost(DigitsOf(p), LimbsOfU64Max) ->
                <<[k |-> "IntegerLiteral", digits |-> v]>>
          [] suffix = "u" /\ AtMost(DigitsOf(p), LimbsOfU64Max) ->
                <<[k |-> "UnsignedIntegerLiteral", digits |-> v]>>
          [] suffix = "i" /\ AtMost(DigitsOf(p), LimbsOfI64Max) ->
                <<[k |-> "SignedIntegerLiteral", neg |-> FALSE, digits |-> v]>>
          [] OTHER -> <<>>

(***************************************************************************)
(* C23.  An integer literal, its underscores removed, validates: without   *)
(* suffix to IntegerLiteral(v) iff v is at most 2^64 - 1; with suffix u to *)
(* UnsignedIntegerLiteral(v) iff v is at most 2^64 - 1; with suffix i to   *)
(* SignedIntegerLiteral(v) iff v is at most 2^63 - 1.  A value out of      *)
(* range, and any other suffix, emits exactly one diagnostic and yields an *)
(* Error.                                                                  *)
(***************************************************************************)
C23_IntegerLiteralsWithinRange ==
    pc = "done" =>
        \A p \in SyntaxIntegerLiterals :
            /\ Cardinality(MadeOf(p)) = 1
            /\ \A e \in MadeOf(p) :
                  /\ IF Expected(p) # <<>>
                     THEN /\ tables.exprs[e] = Expected(p)[1]
                          /\ DiagnosticsOn(p) = {}
                     ELSE /\ tables.exprs[e] = [k |-> "Error"]
                          /\ Cardinality(DiagnosticsOn(p)) = 1

\* { 2^63 i + 1 }: 2^63 is refused as a signed literal, with one diagnostic
C23_Witness ==
    /\ pc = "done"
    /\ syntax_tree =
          U1("Seq", N("Op", <<Lit("i", <<"9","2","2","3","3","7","2","0","3","6","8","5",
                                         "4","7","7","5","8","0","8">>), Int1>>,
                      <<"Plus">>))
    /\ Len(diagnostics) = 1
    /\ ExprsOf("Error") # {}
    /\ ExprsOf("IntegerLiteral") # {}

(***************************************************************************)
(* String literals                                                         *)
(***************************************************************************)
\* the word of the string literal the program is, and the word it is
\* validated to
SourceWord == syntax_tree.a

ValidatedWord == tables.exprs[root_expr].word

IsStringLiteral ==
    /\ pc = "done"
    /\ syntax_tree.k = "StringLiteral"
    /\ tables.exprs[root_expr].k = "StringLiteral"

Whitespace == {" ", "\t", "\n", "\r"}

IsBlank(line) == \A i \in DOMAIN line : line[i] \in Whitespace

\* the lines of s: what stands between two line feeds, before the first and
\* behind the last; nothing stands behind a line feed that ends s
LinesOf(s) ==
    LET feeds == {i \in DOMAIN s : s[i] = "\n"}
        starts == {1} \cup {i + 1 : i \in feeds}
        start(n) == CHOOSE i \in starts : Cardinality({j \in starts : j < i}) = n - 1
        stop(n) == IF n = Cardinality(starts) THEN Len(s) ELSE start(n + 1) - 2
        all == [n \in 1 .. Cardinality(starts) |-> SubSeq(s, start(n), stop(n))]
    IN  IF s = <<>> THEN <<>>
        ELSE IF all[Len(all)] = <<>> THEN SubSeq(all, 1, Len(all) - 1)
        ELSE all

\* the first k characters of every non-blank line are whitespace and are
\* those of the first non-blank line
IsCommonIndent(ls, k) ==
    LET nonblank == {i \in DOMAIN ls : ~IsBlank(ls[i])}
        first == CHOOSE i \in nonblank : \A j \in nonblank : i <= j
    IN  \A i \in nonblank :
            /\ Len(ls[i]) >= k
            /\ \A j \in 1 .. k : ls[i][j] \in Whitespace /\ ls[i][j] = ls[first][j]

\* the length of the longest common whitespace prefix of the non-blank lines
CommonIndent(ls) ==
    LET longest == 0 .. Len(JoinLines(ls))
    IN  CHOOSE k \in longest :
            /\ IsCommonIndent(ls, k)
            /\ \A m \in longest : IsCommonIndent(ls, m) => m <= k

\* s without the whitespace before its first and behind its last character
\* that is no whitespace
Trimmed(s) ==
    LET black == {i \in DOMAIN s : s[i] \notin Whitespace}
    IN  IF black = {} THEN <<>>
        ELSE SubSeq(s, CHOOSE i \in black : \A j \in black : i <= j,
                       CHOOSE i \in black : \A j \in black : j <= i)

\* the lines of s, the common indent stripped from those that are not blank,
\* as one string, trimmed
Dedented(s) ==
    LET ls == LinesOf(s)
        indent == CommonIndent(ls)
        stripped == [i \in DOMAIN ls |->
                        IF IsBlank(ls[i]) THEN ls[i]
                        ELSE SubSeq(ls[i], indent + 1, Len(ls[i]))]
    IN  IF \A i \in DOMAIN ls : IsBlank(ls[i]) THEN <<>>
        ELSE Trimmed(JoinLines(stripped))

IsMultiLine(s) == Len(LinesOf(s)) > 1

HasNoBackslash(s) == \A i \in DOMAIN s : s[i] # "\\"

TerminatorElementsOf(count) ==
    {i \in 0 .. count - 1 : element_at(bir.basic_block, i).element = "Terminator"}

(***************************************************************************)
(* C26.  For a basic block of n statements, elements() is n + 1 and, for   *)
(* every index i in 0..=n, element_at(i) is Statement(statements[i]) when  *)
(* i < n and Terminator(terminator) when i = n: every block has exactly    *)
(* one terminator element, and it is the last element.                     *)
(***************************************************************************)
C26_ElementsAreStatementsThenTerminator ==
    LET basic_block == bir.basic_block
        n == Len(basic_block.statements)
    IN  /\ bir.elements # None => bir.elements = Some(n + 1)
        /\ (bir.index # None /\ bir.index[1] <= n) =>
              bir.element =
                  Some(IF bir.index[1] < n
                       THEN [element |-> "Statement",
                             id |-> basic_block.statements[bir.index[1] + 1]]
                       ELSE [element |-> "Terminator", id |-> basic_block.terminator])
        /\ bir.elements # None =>
              TerminatorElementsOf(bir.elements[1]) = {bir.elements[1] - 1}

\* a block of two statements, asked for its elements (3) and for the element
\* at 2, its terminator
C26_Witness ==
    /\ Len(bir.basic_block.statements) = 2
    /\ bir.elements = Some(3)
    /\ bir.index = Some(2)
    /\ bir.element = Some([element |-> "Terminator", id |-> bir.basic_block.terminator])

(***************************************************************************)
(* Origins                                                                 *)
(***************************************************************************)
TableKinds == {"exprs", "places", "target_places", "local_variables", "named_exprs"}

SyntaxLoops == {p \in Paths(<<>>) : data(p).k = "Loop"}

\* the origins recorded up to the validator state `then` are those of now
OriginsKeptSince(then) ==
    \A kind \in TableKinds :
        \A key \in DOMAIN then.origins[kind] :
            /\ key \in DOMAIN origins[kind]
            /\ origins[kind][key] = then.origins[kind][key]

(***************************************************************************)
(* C27.  Whatever the validator has done, every id allocated in the        *)
(* validated tables has exactly one origin in the origins side-table,      *)
(* recorded by the add that inserted it and never changed afterwards: the  *)
(* origins of the parameters stay what validate_parameter recorded, the    *)
(* slot a loop fix-up overwrites keeps the origin of its placeholder (the  *)
(* loop or while expression, not synthesized), and the push of the unit on *)
(* the root expression leaves every origin recorded before it unchanged.   *)
(***************************************************************************)
C27_OriginsRecordedOnceAndKept ==
    LET root_kept(body) == pc = "done" => OriginsKeptSince(body.v)
    IN  /\ \A kind \in TableKinds : DOMAIN origins[kind] = DOMAIN tables[kind]
        /\ \A decl \in DOMAIN code.parameters :
              decl \in DOMAIN tables.local_variables =>
                  origins.local_variables[decl] = [lvo |-> "Parameter", decl |-> <<decl>>]
        /\ pc = "done" =>
              /\ \A p \in SyntaxLoops \cup SyntaxWhiles :
                    Cardinality(ExprsAt("Loop", real(p))) = 1
              /\ \A L \in ExprsOf("Loop") :
                    /\ ~origin_in(L).synthesized
                    /\ origin_in(L).syntax_expr \in SyntaxLoops \cup SyntaxWhiles
        /\ root_kept(give_validated_expr(EntryValidator, <<>>))

\* { loop { 1 } } in a function that returns nothing: the slot of the loop was
\* fixed up and the unit was pushed on the root Seq, whose origins are kept
C27_Witness ==
    /\ pc = "done"
    /\ code.return_type = "Unit"
    /\ syntax_tree = U1("Seq", U1("Loop", Int1))
    /\ tables.exprs[root_expr].k = "Seq"
    /\ Len(tables.exprs[root_expr].exprs) = 2
    /\ origin_in(root_expr) = real(<<>>)
    /\ ExprsAt("Loop", real(<<1>>)) # {}

(***************************************************************************)
(* Loop placeholders                                                       *)
(***************************************************************************)
\* the root Seq of the body of a function that returns nothing: the unit is
\* pushed on it
IsPushedRoot(e) ==
    /\ code.return_type = "Unit"
    /\ e = root_expr
    /\ tables.exprs[e].k = "Seq"

\* the entry of e was written when it was inserted: what it names was
\* inserted before it
WrittenAtInsertion(e) == \A c \in Range(children(e)) : c < e

(***************************************************************************)
(* C28.  For every loop and while expression the validated id is allocated *)
(* before any id of its body (and of its condition), and when the          *)
(* validation is done that slot holds Loop(body), the body inserted after  *)
(* it: no slot allocated for a loop still holds the Error it was allocated *)
(* with.  Apart from this fix-up and the push on the root Seq no entry is  *)
(* modified once inserted: every other entry names only entries inserted   *)
(* before it, and a Break names the slot of its loop, inserted before it.  *)
(***************************************************************************)
C28_LoopSlotAllocatedFirstAndFixedUp ==
    pc = "done" =>
        /\ \A p \in SyntaxLoops \cup SyntaxWhiles :
              /\ ExprsAt("Error", real(p)) = {}
              /\ Cardinality(ExprsAt("Loop", real(p))) = 1
              /\ \A L \in ExprsAt("Loop", real(p)) :
                    /\ \A e \in ExprsUnder(p) : L <= e
                    /\ tables.exprs[L].expr > L
                    /\ tables.exprs[L].expr \in ExprsUnder(p)
        /\ (data(<<>>).k \in {"Loop", "While"} /\ code.return_type = "Value") =>
              root_expr \in ExprsAt("Loop", real(<<>>))
        /\ \A e \in ExprIds :
              (tables.exprs[e].k # "Loop" /\ ~IsPushedRoot(e)) => WrittenAtInsertion(e)
        /\ \A b \in ExprsOf("Break") :
              /\ tables.exprs[b].from_expr < b
              /\ tables.exprs[tables.exprs[b].from_expr].k = "Loop"

\* while x { loop { 1 } }: the slot of the while is 1, that of the loop is
\* allocated after the condition, and both hold a Loop
C28_Witness ==
    /\ pc = "done"
    /\ syntax_tree = N("While", <<Id("x"), U1("Loop", Int1)>>, <<>>)
    /\ ExprsAt("Loop", real(<<>>)) = {1}
    /\ \E L \in ExprsAt("Loop", real(<<2>>)) : L > 1 /\ tables.exprs[L].expr > L
    /\ ExprsOf("Error") = {}

(***************************************************************************)
(* The scope of a declaration                                              *)
(***************************************************************************)
\* the declarations whose initializer is a place that starts at the name
\* they declare: var x = x, var x = x.f, var x = (x)
SyntaxVarsOfThemselves ==
    {p \in SyntaxVars :
        /\ is_place_expression(kid(p, 1))
        /\ data(PlaceRoot(kid(p, 1))).k = "Id"
        /\ data(PlaceRoot(kid(p, 1))).a[1] = data(p).a[1]}

(***************************************************************************)
(* C29.  In var x = init the variable x is inserted into the scope before  *)
(* init is validated: the name x inside init is the variable just          *)
(* declared, not a variable of the same name around it.  var x = x (and    *)
(* var x = x.f) validates to AssignFromPlace(x_new, x_new (.f)), whether   *)
(* or not the name was defined before.                                     *)
(***************************************************************************)
C29_VarIsInScopeOfItsInitializer ==
    pc = "done" =>
        \A p \in SyntaxVarsOfThemselves :
            /\ Declares(p)
            /\ ExprsAt("Error", real(p)) = {}
            /\ DiagnosticsAt("can't find anything named", PlaceRoot(kid(p, 1))) = {}
            /\ Cardinality(ExprsAt("AssignFromPlace", real(p))) = 1
            /\ \A a \in ExprsAt("AssignFromPlace", real(p)) :
                  /\ AssignsDeclared(a, p)
                  /\ place_variables(tables.exprs[a].source) = DeclaredAt(p)

\* var x = x in a function of parameter x: the parameter is variable 1, the
\* declared x is variable 2, assigned from itself
C29_Witness ==
    /\ pc = "done"
    /\ syntax_tree = VarDecl("x", Id("x"))
    /\ DeclaredAt(<<>>) = {2}
    /\ \E a \in ExprsAt("AssignFromPlace", real(<<>>)) :
          /\ tables.target_places[tables.exprs[a].target] = [k |-> "LocalVariable", lv |-> 2]
          /\ tables.places[tables.exprs[a].source] = [k |-> "LocalVariable", lv |-> 2]

(***************************************************************************)
(* The order of the diagnostics                                            *)
(***************************************************************************)
\* the expression at a is in a later sibling than the expression at b: where
\* the two paths part, a goes to a later child
InLaterSibling(a, b) ==
    \E k \in 1 .. Len(a) :
        /\ k <= Len(b)
        /\ SubSeq(a, 1, k - 1) = SubSeq(b, 1, k - 1)
        /\ a[k] > b[k]

\* the diagnostics of these messages are in the order of the walk: none
\* reported in a later sibling comes before one reported in an earlier one
InWalkOrder(messages) ==
    \A i, j \in DOMAIN diagnostics :
        (/\ i < j
         /\ diagnostics[i].message \in messages
         /\ diagnostics[j].message \in messages)
            => ~InLaterSibling(diagnostics[i].span.of, diagnostics[j].span.of)

(***************************************************************************)
(* C30.  The diagnostics emitted while one function is validated are in    *)
(* the order of the walk of the syntax tree: for siblings validated left   *)
(* to right (the elements of a Seq, the operands of an Op, the function    *)
(* and the arguments of a call), every diagnostic of an earlier sibling is *)
(* emitted before every diagnostic of a later one, the "parameter name     *)
(* required" of argument i of a call and the diagnostics raised inside an  *)
(* argument j > i included.                                                *)
(***************************************************************************)
C30_DiagnosticsInWalkOrder ==
    pc = "done" => InWalkOrder(ErrorMessages)

====
